---- MODULE Spec2Model ----
(***************************************************************************)
(* Playback navigation engine of quing (src/src/playback.rs).              *)
(*                                                                         *)
(* One call of Playhandle::all_playlists_play is modelled as a process     *)
(* whose position is `pc`; Playlist::play_through and Track::play_through  *)
(* are the nested calls it makes.  Indices are 0-based as in the source;   *)
(* TLA+ sequences are 1-based, so element i of a Vec is seq[i + 1].        *)
(*                                                                         *)
(* Environment: the rodio sink (it drains a playing stream on its own      *)
(* thread), the signal channel (each try-receive yields Empty, a Signal or *)
(* Disconnected) and the file system (opening a track may fail).  Writing  *)
(* the clear-line sequence to the terminal is taken to succeed.            *)
(***************************************************************************)
EXTENDS Integers, Sequences, FiniteSets

VARIABLES
    playlists,        \* Playhandle.playlists: Vec<Playlist>, with the Cells they hold
    handle,           \* the remaining fields of Playhandle, and the sink behind io_handle
    should_shuffle,   \* argument of all_playlists_play
    pc,               \* position of the playback thread
    self_playlist,    \* index in playlists of the Playlist whose play_through is running
    shufflable,       \* should_shuffle argument of the running Playlist::play_through
    self_track,       \* index in tracks of the Track whose play_through is running
    whole_elapsed_time, \* local of Track::play_through, in whole seconds (0 outside it)
    track_result,     \* value returned by Track::play_through, until it is matched
    playlist_result,  \* value returned by Playlist::play_through, until it is matched
    result,           \* value returned by all_playlists_play
    signals_received, \* number of signals taken from the channel so far, volume apart
    last_signal,      \* the signal the latest tick took, until the next tick or the match on it
    played,           \* <<playlist, track>> of each stream started, while no signal has come
    unchecked_read,   \* "none", or which get_unchecked was handed an index out of range
    constructed,      \* playlists as they were constructed
    controls,         \* Controls of in_out.rs: its thread, its two channels, its owner
    serde,            \* the SerDePlaylist descriptors of serde.rs and what was made of them
    main,             \* main.rs: the locals of main and its Playback-Control thread
    in_out,           \* in_out.rs: UnwrappedPlaylist::play, its Track and the global VOLUME
    received_at       \* the pointers and the elapsed time when last_signal was taken

vars == <<playlists, handle, should_shuffle, pc, self_playlist, shufflable, self_track,
          whole_elapsed_time, track_result, playlist_result, result,
          signals_received, last_signal, received_at, played, unchecked_read, constructed, controls, serde, main, in_out>>

---------------------------------------------------------------------------
(* Bounds of the model. *)

MaxPlaylists == 2     \* playlists held by the Playhandle
MaxTracks == 3        \* tracks per playlist
MaxNegative == 2      \* a negative counter is followed down to -MaxNegative
MaxSignals == 2       \* signals the input thread sends during the call, volume apart
MaxVolumeSteps == 83  \* the raw volume is followed this many steps either side of 0
MaxEvents == 2        \* the terminal delivers this many events to the control thread
MaxPolls == 2         \* polls after notify_exit are counted up to this
IsizeBits == 6        \* the 64 bits of the isize repeat counters are scaled down to this

(* The back-skip threshold of one second, in the unit of whole_elapsed_time. *)
Second == 1

(* Playhandle.volume is kept in multiples of STEP = 0.025: 1.0 is 40 steps. *)
StepsPerUnit == 40

---------------------------------------------------------------------------
(* Signal and its classification predicates (in_out::Signal). *)

Signals == {"PlaylistNext", "PlaylistBack", "PlaylistReset",
            "TrackNext", "TrackBack", "TrackReset", "Play",
            "VolumeIncrease", "VolumeDecrease", "Mute", "VolumeReset", "Exit"}

is_skip(signal) == signal \in {"PlaylistNext", "PlaylistBack", "TrackNext", "TrackBack"}
is_next_skip(signal) == signal \in {"PlaylistNext", "TrackNext"}
is_track_skip(signal) == signal \in {"TrackNext", "TrackBack"}
is_volume(signal) == signal \in {"VolumeIncrease", "VolumeDecrease", "Mute", "VolumeReset"}

---------------------------------------------------------------------------
(* Playlist and Track. *)

tracks_count(playlist) == Len(playlist.tracks)

(* shuffle_can that allows it whatever the flag. *)
shuffle_can_always(playlist) == TRUE

shuffle_can(playlist) == playlist.shuffle

(* repeats_can taking a counter of 0 for one more pass. *)
repeats_can_inclusive(repeats) == repeats >= 0

(* repeats_can taking a negative counter for a spent one. *)
repeats_can_positive(repeats) == repeats > 0

(* Track::repeats_can / Playlist::repeats_can *)
repeats_can(repeats) == repeats # 0

(* repeats_update counting a pass twice. *)
repeats_update_twice(repeats) == repeats - 2

(* The range of isize. *)
IsizeMin == -(2 ^ (IsizeBits - 1))
IsizeMax == 2 ^ (IsizeBits - 1) - 1

(* Track::repeats_update / Playlist::repeats_update: old - 1 on an isize, as a *)
(* build without overflow checks computes it.                                 *)
repeats_update(repeats) == IF repeats = IsizeMin THEN IsizeMax ELSE repeats - 1

(* old - 1 overflows: a build with overflow checks panics there. *)
repeats_update_overflows(repeats) == repeats = IsizeMin

(* TryFrom<SerDePlaylist> for Playlist: track_map is 0, 1, .., len - 1 from   *)
(* enumerate(); an empty song list is refused with VectorError::Empty.        *)
NewPlaylist(track_repeats, time, vary) ==
    [ track_map |-> [i \in 1..Len(track_repeats) |-> i - 1],
      shuffle   |-> vary,
      length    |-> Len(track_repeats),
      tracks    |-> [i \in 1..Len(track_repeats) |-> [repeats |-> track_repeats[i]]],
      repeats   |-> time ]

(* A swap that writes one side only. *)
SwapOverwriting(map, a, b) == [map EXCEPT ![a + 1] = map[b + 1]]

(* slice::swap on a 0-indexed Vec *)
Swap(map, a, b) == [map EXCEPT ![a + 1] = map[b + 1], ![b + 1] = map[a + 1]]

(* generator.shuffle(&mut map), fastrand's Rng::shuffle:                     *)
(* for i in 1..len { swap(i, rand(0..=i)) }, from i on.                      *)
RECURSIVE RngShuffle(_, _, _)
RngShuffle(maps, i, length) ==
    IF i >= length THEN maps
    ELSE RngShuffle({Swap(map, i, j) : map \in maps, j \in 0..i}, i + 1, length)

(* The loop of Playlist::shuffle over index in 0..self.length. *)
RECURSIVE ShuffleLoop(_, _, _)
ShuffleLoop(maps, index, length) ==
    IF index >= length THEN maps
    ELSE ShuffleLoop({Swap(Swap(map, index, a), index, b) :
                          map \in maps, a \in 0..index, b \in index..(length - 1)},
                     index + 1, length)

(* Playlist::shuffle: every track_map the random generator can leave behind. *)
shuffle(playlist) ==
    {[playlist EXCEPT !.track_map = map] :
        map \in ShuffleLoop(RngShuffle({playlist.track_map}, 1, Len(playlist.track_map)),
                            0, playlist.length)}

---------------------------------------------------------------------------
(* SerDePlaylist and SerDeTrack (serde.rs). *)

(* Option<T> *)
None == <<>>
Some(value) == <<value>>
unwrap_or(option, default) == IF option = None THEN default ELSE option[1]
unwrap_or_default(option) == unwrap_or(option, 0)

(* SerDePlaylist::vary_set: self.vary = state.then_some(true) *)
vary_set(descriptor, state) ==
    [descriptor EXCEPT !.vary = IF state THEN Some(TRUE) ELSE None]

(* SerDePlaylist::vary_unset *)
vary_unset(descriptor) == vary_set(descriptor, FALSE)

(* TryFrom<SerDePlaylist> for Playlist, with the Result around it: an empty     *)
(* song list is Err(VectorError::Empty).                                       *)
Playlist_try_from(descriptor) ==
    [ ok |-> descriptor.song # <<>>,
      playlist |-> NewPlaylist([i \in 1..Len(descriptor.song) |->
                                   unwrap_or_default(descriptor.song[i].time)],
                               unwrap_or_default(descriptor.time),
                               unwrap_or(descriptor.vary, TRUE)) ]

(* lists.into_iter().flat_map(|list| list.song).collect() *)
RECURSIVE flat_map_song(_)
flat_map_song(lists) ==
    IF lists = <<>> THEN <<>> ELSE Head(lists).song \o flat_map_song(Tail(lists))

(* min_by_key(time.unwrap_or_default()): the first of the least. *)
min_by_key_time(lists) ==
    LET key(i) == unwrap_or_default(lists[i].time)
        least == CHOOSE i \in 1..Len(lists) :
                    /\ \A j \in 1..Len(lists) : key(i) <= key(j)
                    /\ \A j \in 1..(i - 1) : key(j) > key(i)
    IN  lists[least]

(* find_map over vary: Some(false) at the first list that is not Some(true). *)
find_map_vary(lists) ==
    IF \E i \in 1..Len(lists) : lists[i].vary # Some(TRUE) THEN Some(FALSE) ELSE None

EmptyDescriptor == [song |-> <<>>, time |-> None, vary |-> None]

(* SerDePlaylist::flatten, with the Result around it. *)
flatten(lists) ==
    IF lists = <<>> \/ find_map_vary(lists) = None
    THEN [ok |-> FALSE, value |-> EmptyDescriptor]
    ELSE [ok |-> TRUE,
          value |-> [song |-> flat_map_song(lists),
                     time |-> Some(unwrap_or_default(min_by_key_time(lists).time)),
                     vary |-> find_map_vary(lists)]]

(* No descriptors at hand: the playlists are built already. *)
NoDescriptors ==
    [lists |-> <<>>, call |-> "none", state |-> None, at |-> 0,
     built |-> None, flattened |-> None]

---------------------------------------------------------------------------
(* Playhandle. *)

playlists_count == Len(playlists)

(* TRUE stands for Some(VectorError::OutOfBounds), FALSE for None. *)
playlist_index_check(h) == h.current_playlist_index >= playlists_count

track_index_check(h) ==
    IF playlist_index_check(h) THEN TRUE
    ELSE h.current_track_index >= tracks_count(playlists[h.current_playlist_index + 1])

(* Playhandle::tracks_count: playlists.get_unchecked(track pointer), then      *)
(* Playlist::tracks_count.  The results the call can give: with the track      *)
(* pointer at or past playlists.len() the read is undefined behaviour, and any *)
(* count may come back.                                                        *)
Playhandle_tracks_count(h) ==
    IF h.current_track_index < playlists_count
    THEN {tracks_count(playlists[h.current_track_index + 1])}
    ELSE 0..MaxTracks

(* playback_clear that rewinds the track pointer as well. *)
playback_clear_rewinding(h) ==
    [h EXCEPT !.sink.empty = TRUE, !.sink.paused = TRUE, !.current_track_index = 0]

(* Sink::clear behind playback_clear: "clears and pauses the internal Sink". *)
playback_clear(h) == [h EXCEPT !.sink.empty = TRUE, !.sink.paused = TRUE]

playback_play(h) == [h EXCEPT !.sink.paused = FALSE, !.paused = FALSE]

playback_pause(h) == [h EXCEPT !.sink.paused = TRUE, !.paused = TRUE]

playback_is_paused(h) == h.paused

playback_toggle(h) == IF playback_is_paused(h) THEN playback_play(h) ELSE playback_pause(h)

(* playback_has_ended that never sees the sink drained. *)
playback_has_ended_never(h) == FALSE

(* Playhandle::playback_has_ended: Sink::empty *)
playback_has_ended(h) == h.sink.empty

(* IOHandle::stream_play: the decoded stream is appended to the sink. *)
stream_play(h) == [h EXCEPT !.sink.empty = FALSE]

track_index_set_unchecked(h, new) == [playback_clear(h) EXCEPT !.current_track_index = new]

(* A reset that clears the sink and leaves the pointer. *)
track_index_reset_nowhere(h) == playback_clear(h)

track_index_reset(h) == track_index_set_unchecked(h, 0)

(* A set that leaves the playlist pointer where it is. *)
playlist_index_set_unchecked_kept(h, new) == h

playlist_index_set_unchecked(h, new) == [h EXCEPT !.current_playlist_index = new]

(* playlist_index_reset without its track_index_reset. *)
playlist_index_reset_alone(h) == playlist_index_set_unchecked(h, 0)

playlist_index_reset(h) == playlist_index_set_unchecked(track_index_reset(h), 0)

(* usize subtraction without the guard: 0 - 1 wraps (16 bits stand for 64). *)
decrement_wrapping(old) == (old - 1) % 65536

(* The two setters of Track::play_through. *)
decrement(old) == old - (IF old > 0 THEN 1 ELSE 0)
increment(old) == old + 1

(* A setter closure is handed over by name and called on the old index. *)
setter_call(setter, old) ==
    IF setter = "increment" THEN increment(old) ELSE decrement(old)

(* Both try_set operations give the handle afterwards and whether Ok(()) came back. *)
playlist_index_try_set(h, setter) ==
    LET reset == track_index_reset(h)
        new_index == setter_call(setter, reset.current_playlist_index)
    IN  IF new_index >= playlists_count
        THEN [handle |-> [reset EXCEPT !.has_reached_entire_end = TRUE], ok |-> FALSE]
        ELSE [handle |-> [reset EXCEPT !.current_playlist_index = new_index], ok |-> TRUE]

(* track_index_try_set that reports the index out of bounds without setting the flag. *)
track_index_try_set_unflagged(h, setter) ==
    LET new_index == setter_call(setter, h.current_track_index)
    IN  IF playlist_index_check(h) THEN [handle |-> h, ok |-> FALSE]
        ELSE IF new_index >= tracks_count(playlists[h.current_playlist_index + 1])
        THEN [handle |-> h, ok |-> FALSE]
        ELSE [handle |-> track_index_set_unchecked(h, new_index), ok |-> TRUE]

(* Playhandle::track_index_try_set *)
track_index_try_set(h, setter) ==
    LET new_index == setter_call(setter, h.current_track_index)
    IN  IF playlist_index_check(h) THEN [handle |-> h, ok |-> FALSE]
        ELSE IF new_index >= tracks_count(playlists[h.current_playlist_index + 1])
        THEN [handle |-> [h EXCEPT !.has_reached_current_playlist_end = TRUE], ok |-> FALSE]
        ELSE [handle |-> track_index_set_unchecked(h, new_index), ok |-> TRUE]

(* volume_get without the clamp. *)
volume_get_unclamped(h) == h.volume

(* f32::clamp(0.0, 2.0) of the raw volume, in steps. *)
volume_get(h) ==
    IF h.volume < 0 THEN 0
    ELSE IF h.volume > 2 * StepsPerUnit THEN 2 * StepsPerUnit
    ELSE h.volume

volume_get_raw(h) == h.volume

volume_set_raw(h, new) == [h EXCEPT !.volume = new]

(* A mute that forgets the volume it silences. *)
volume_mute_to_zero(h) == volume_set_raw(h, 0)

(* Sink::set_volume(self.volume_get()) *)
volume_update(h) == [h EXCEPT !.sink.volume = volume_get(h)]
volume_reset(h) == volume_set_raw(h, StepsPerUnit)
volume_mute(h) == volume_set_raw(h, volume_get_raw(h) + 2 * (-volume_get_raw(h)))
volume_increment(h) == volume_set_raw(h, volume_get_raw(h) + 1)
volume_decrement(h) == volume_set_raw(h, volume_get_raw(h) - 1)

(* Playhandle::raw_parts_from; the fresh sink of IOHandle is empty and playing *)
(* at volume 1.0.                                                             *)
NewPlayhandle ==
    [ current_track_index |-> 0,
      current_playlist_index |-> 0,
      has_reached_current_playlist_end |-> FALSE,
      has_reached_entire_end |-> FALSE,
      volume |-> StepsPerUnit,
      paused |-> FALSE,
      sink |-> [empty |-> TRUE, paused |-> FALSE, volume |-> StepsPerUnit] ]


---------------------------------------------------------------------------
(* Construction. *)

(* Repeat counts a descriptor may carry: forever, none, and two. *)
RepeatValues == {-1, 0, 2}

(* The track repeat counts of a playlist of `length` tracks in which the    *)
(* track at `at` (1-based; the last one when `at` is past the end) is        *)
(* declared with `time` and the others with none.                            *)
TrackTimes(length, at, time) ==
    [i \in 1..length |-> IF i = at \/ (at > length /\ i = length) THEN time ELSE 0]

(* The playlists a Playhandle is built from, as SerDePlaylist -> Playlist     *)
(* leaves them.  Every playlist is non-empty (an empty one is refused at      *)
(* construction).  The first playlist carries the repeat counts: its own      *)
(* `time`, and `time` of one of its tracks; the playlists after it are        *)
(* declared without any and have one length.                                  *)
Constructed(counts, times, track_times, varies) ==
    { [p \in 1..count |->
          IF p = 1 THEN NewPlaylist(TrackTimes(first, at, track_time), time, vary)
          ELSE NewPlaylist(TrackTimes(rest, 0, 0), 0, vary)] :
        count \in counts, first \in 1..MaxTracks, rest \in 1..MaxTracks,
        at \in 1..MaxTracks, time \in times, track_time \in track_times, vary \in varies }

(* ().into() giving the level-2 skip. *)
ControlFlowFromUnit_SkipSkip == "SkipSkip"

(* From<()> for ControlFlow: Ok(().into()) is Ok(ControlFlow::Default). *)
ControlFlowFromUnit == "Default"

(* Error: Io, Channel(Disconnect) and Vector(OutOfBounds) can come back. *)
Errors == {"ErrIo", "ErrDisconnect", "ErrOutOfBounds"}

(* An arm-pattern that matches nothing. *)
is_out_of_bounds_never(error) == FALSE

(* The arm-pattern Err(Error::Vector(VectorError::OutOfBounds)). *)
is_out_of_bounds(error) == error = "ErrOutOfBounds"

(* An arm that swallows the error and goes on as Ok(().into()). *)
try_swallow(other) == ControlFlowFromUnit

(* Err(other) => Err(other)?: the error is returned as it came. *)
try_propagate(other) == other

(* received_at while last_signal is "None". *)
Nowhere == [playlist |-> 0, track |-> 0, elapsed |-> 0, volume |-> 0]

---------------------------------------------------------------------------
(* main.rs: the program whose main function holds the playback loop.  Time is  *)
(* counted in eighths of a second.                                             *)

(* const FOURTH_SECOND: Duration = Duration::from_millis(250) *)
FOURTH_SECOND == 2

(* const SECOND: Duration = Duration::from_secs(1) *)
SECOND == 4 * FOURTH_SECOND

(* enum Signal of main.rs *)
MainSignals ==
    {"ManualExit", "SkipNextPlaylist", "SkipBackPlaylist", "SkipNext", "SkipBack",
     "TogglePlayback"}

(* info.duration() of lofty: every song is taken to last a second and a quarter. *)
duration == SECOND + FOURTH_SECOND

(* fn next(time, index): the counter and the index afterwards, the `-= 1` as a *)
(* build without overflow checks computes it.                                  *)
next(time, index) ==
    IF time = 0 THEN [time |-> time, index |-> index + 1]
    ELSE [time |-> IF time = IsizeMin THEN IsizeMax ELSE time - 1, index |-> index]

(* `*time -= 1` overflows: a build with overflow checks panics there. *)
next_overflows(time) == time # 0 /\ time = IsizeMin

(* main before its 'queue loop: lists as they were parsed (song holds the time *)
(* of every Song, time the list's own), the control thread polling, nothing    *)
(* sent.  since is the time the current run of a playlist has been playing,    *)
(* counted up to just past SECOND.                                             *)
NewMain(lists) ==
    [ pc             |-> "queue",
      lists          |-> lists,
      list_index     |-> 0,
      old_list_index |-> 0,
      song           |-> <<>>,
      song_index     |-> 0,
      old_song_index |-> 0,
      elapsed        |-> 0,
      paused         |-> FALSE,
      since          |-> 0,
      control        |-> "running",
      signal         |-> <<>>,
      sent           |-> 0 ]

---------------------------------------------------------------------------
(* in_out.rs: UnwrappedPlaylist::play and UnwrappedTrack::play, with the       *)
(* volume in the global VOLUME.  Time is counted in ticks.                     *)

(* TICK, the time receive_signal waits for a signal. *)
TICK == 1

(* Duration::from_secs(2), in ticks. *)
TwoSeconds == 2 * TICK

(* UnwrappedTrack.duration: every track is taken to last three ticks. *)
track_duration == TwoSeconds + TICK

(* static mut VOLUME: f32 = 1.0, in steps. *)
NewVOLUME == StepsPerUnit

(* UnwrappedPlaylist as TryFrom<&Playlist> builds it (track_index: 0), before   *)
(* play is called on it.  tracks holds the repeats of every UnwrappedTrack,    *)
(* volume is the volume of the sink.  Noted beside the program's state: the    *)
(* tracks played so far, the time since play was called (counted up to just    *)
(* past TwoSeconds), the signals received, whether a file failed to play, how   *)
(* many Mute signals were handled in a row and the VOLUME before the first.    *)
NewUnwrappedPlaylist(tracks, repeats) ==
    [ pc           |-> "play",
      repeats      |-> repeats,
      tracks       |-> tracks,
      track_index  |-> 0,
      old          |-> 0,
      elapsed      |-> 0,
      paused       |-> FALSE,
      VOLUME       |-> NewVOLUME,
      volume       |-> NewVOLUME,
      has_controls |-> TRUE,
      instruction  |-> "running",
      played       |-> <<>>,
      since        |-> 0,
      received     |-> 0,
      failed       |-> FALSE,
      mutes        |-> [count |-> 0, from |-> 0],
      declared     |-> [repeats |-> repeats, tracks |-> tracks] ]

(* Bundle::with(true): the control thread is spawned at the head of its loop,  *)
(* both channels are empty, the owner holds the Controls.  `events` is what    *)
(* the terminal still has to deliver, `polls` the polls that ended since       *)
(* notify_exit, `ended_by` the way the thread came to its end, `sent` and      *)
(* `received` what went into and came out of the signal channel so far.        *)
NewControls ==
    [ control_thread |-> "recv_timeout",
      exit_channel   |-> 0,
      signal_channel |-> <<>>,
      sent           |-> <<>>,
      received       |-> <<>>,
      signal         |-> "None",
      owner          |-> "running",
      events         |-> MaxEvents,
      polls          |-> 0,
      ended_by       |-> "none" ]

thread_has_ended(c) == c.control_thread = "terminated"

(* A send that puts the signal in front of the waiting ones. *)
signal_send_front(c, signal) ==
    [c EXCEPT !.signal_channel = <<signal>> \o @, !.sent = Append(@, signal)]

(* signal_sender.send(signal) on the unbounded channel. *)
signal_send(c, signal) ==
    [c EXCEPT !.signal_channel = Append(@, signal), !.sent = Append(@, signal)]

(* Controls::receive_signal with a signal waiting: Ok(signal), taken from the  *)
(* channel.                                                                    *)
receive_signal(c) ==
    [c EXCEPT !.signal_channel = Tail(@), !.received = Append(@, Head(c.signal_channel))]

(* Controls::signal_receive of Track::play_through giving Ok(signal): the      *)
(* signal at the head of the channel is taken.                                 *)
signal_receive(c) == [c EXCEPT !.signal_channel = Tail(@)]

(* The locals and the bookkeeping before all_playlists_play is called. *)
Fresh ==
    /\ handle = NewPlayhandle
    /\ pc = "all_playlists_play"
    /\ self_playlist = 0
    /\ shufflable = FALSE
    /\ self_track = 0
    /\ whole_elapsed_time = 0
    /\ track_result = "None"
    /\ playlist_result = "None"
    /\ result = "None"
    /\ signals_received = 0
    /\ last_signal = "None"
    /\ received_at = Nowhere
    /\ played = <<>>
    /\ unchecked_read = "none"
    /\ constructed = playlists
    /\ controls = NewControls

(* The earlier programs are not running. *)
NoMain == main = NewMain(<<>>)
NoInOut == in_out = NewUnwrappedPlaylist(<<>>, 0)

(* The same with the descriptors gone into the playlists. *)
Called == Fresh /\ serde = NoDescriptors /\ NoMain /\ NoInOut

(* Playback in declared order: all_playlists_play(false). *)
Init ==
    /\ playlists \in Constructed(1..MaxPlaylists, RepeatValues, RepeatValues, {TRUE})
    /\ should_shuffle = FALSE
    /\ Called

---------------------------------------------------------------------------
(* Playhandle::all_playlists_play. *)

(* Head of the while loop: resolve the playlist, shuffle it, call play_through. *)
AllPlaylistsPlay ==
    /\ pc = "all_playlists_play"
    /\ IF ~playlist_index_check(handle)
       THEN LET index == handle.current_playlist_index
                playlist == playlists[index + 1]
                can == should_shuffle /\ shuffle_can(playlist)
            IN  /\ shufflable' = can
                /\ IF can
                   THEN \E shuffled \in shuffle(playlist) :
                           playlists' = [playlists EXCEPT ![index + 1] = shuffled]
                   ELSE UNCHANGED playlists
                /\ self_playlist' = index
                /\ pc' = "playlist_play_through"
                /\ UNCHANGED result
       ELSE /\ result' = ControlFlowFromUnit
            /\ pc' = "returned"
            /\ UNCHANGED <<playlists, shufflable, self_playlist>>
    /\ UNCHANGED <<handle, should_shuffle, self_track, whole_elapsed_time, track_result,
                   playlist_result, signals_received, last_signal, received_at, played, unchecked_read, constructed, controls, serde, main, in_out>>

(* The match on what Playlist::play_through returned, and the two one-shot  *)
(* flags read with take(): the second is read only when the first was unset. *)
AllPlaylistsPlayMatch ==
    /\ pc = "playlist_returned"
    /\ CASE playlist_result \in {"ErrIo", "ErrDisconnect", "ErrOutOfBounds"} ->
                /\ result' = playlist_result
                /\ pc' = "returned"
                /\ UNCHANGED handle
         [] playlist_result = "Break" ->
                /\ result' = "Break"
                /\ pc' = "returned"
                /\ UNCHANGED handle
         [] playlist_result = "SkipSkip" ->      \* unimplemented!()
                /\ pc' = "panicked"
                /\ UNCHANGED <<result, handle>>
         [] playlist_result \in {"Skip", "Default"} ->
                IF handle.has_reached_current_playlist_end
                THEN /\ handle' = [handle EXCEPT !.has_reached_current_playlist_end = FALSE]
                     /\ result' = ControlFlowFromUnit
                     /\ pc' = "returned"
                ELSE IF handle.has_reached_entire_end
                THEN /\ handle' = [handle EXCEPT !.has_reached_entire_end = FALSE]
                     /\ result' = ControlFlowFromUnit
                     /\ pc' = "returned"
                ELSE /\ pc' = "all_playlists_play"
                     /\ UNCHANGED <<result, handle>>
    /\ playlist_result' = "None"
    /\ UNCHANGED <<playlists, should_shuffle, self_playlist, shufflable, self_track,
                   whole_elapsed_time, track_result,
                   signals_received, last_signal, received_at, played, unchecked_read, constructed, controls, serde, main, in_out>>

---------------------------------------------------------------------------
(* Playlist::play_through, running on playlists[self_playlist]. *)

(* Head of the while loop.  nth_unchecked(track pointer) reads track_map of  *)
(* the playlist it runs on with get_unchecked: past its end that is undefined *)
(* behaviour, after which the process dies or goes on with some track.       *)
PlaylistPlayThrough ==
    /\ pc = "playlist_play_through"
    /\ LET self == playlists[self_playlist + 1]
           index == handle.current_track_index
       IN  IF ~track_index_check(handle)
           THEN IF index < Len(self.track_map)
                THEN /\ self_track' = self.track_map[index + 1]
                     /\ pc' = "track_play_through"
                     /\ UNCHANGED unchecked_read
                ELSE /\ unchecked_read' = "track_map"
                     /\ \/ /\ pc' = "crashed"
                           /\ UNCHANGED self_track
                        \/ /\ pc' = "track_play_through"
                           /\ self_track' \in 0..(Len(self.tracks) - 1)
           ELSE /\ pc' = "playlist_after_loop"
                /\ UNCHANGED <<self_track, unchecked_read>>
    /\ UNCHANGED <<playlists, handle, should_shuffle, self_playlist, shufflable,
                   whole_elapsed_time, track_result, playlist_result, result,
                   signals_received, last_signal, received_at, played, constructed, controls, serde, main, in_out>>

(* The match on what Track::play_through returned.  last_signal names the     *)
(* signal whose handling is under way: a skip that came back out of bounds is  *)
(* still being handled after the break, up to the end of PlaylistAfterLoop.    *)
PlaylistMatch ==
    /\ pc = "track_returned"
    /\ CASE track_result = "Break" ->
                /\ playlist_result' = "Break"
                /\ pc' = "playlist_returned"
                /\ UNCHANGED handle
         [] track_result = "SkipSkip" ->
                /\ playlist_result' = "Skip"
                /\ pc' = "playlist_returned"
                /\ UNCHANGED handle
         [] track_result \in {"Skip", "Default"} ->     \* continue / fall through
                /\ pc' = "playlist_play_through"
                /\ UNCHANGED <<playlist_result, handle>>
         [] is_out_of_bounds(track_result) ->           \* reset the pointer, break
                /\ handle' = track_index_reset(handle)
                /\ pc' = "playlist_after_loop"
                /\ UNCHANGED playlist_result
         [] track_result \in Errors /\ ~is_out_of_bounds(track_result) ->
                /\ playlist_result' = try_propagate(track_result)
                /\ pc' = "playlist_returned"
                /\ UNCHANGED handle
    /\ track_result' = "None"
    /\ last_signal' = IF is_out_of_bounds(track_result) THEN last_signal ELSE "None"
    /\ received_at' = Nowhere
    /\ UNCHANGED <<playlists, should_shuffle, self_playlist, shufflable, self_track,
                   whole_elapsed_time, result,
                   signals_received, played, unchecked_read, constructed, controls, serde, main, in_out>>

(* After the loop: another pass while the repeat counter is not 0, else the  *)
(* playlist pointer is moved on and Default returned.                        *)
PlaylistAfterLoop ==
    /\ pc = "playlist_after_loop"
    /\ LET self == playlists[self_playlist + 1]
       IN  IF repeats_can(self.repeats)
           THEN /\ self.repeats > -MaxNegative
                /\ LET updated == [self EXCEPT !.repeats = repeats_update(self.repeats)]
                   IN  \E again \in (IF shufflable THEN shuffle(updated) ELSE {updated}) :
                          playlists' = [playlists EXCEPT ![self_playlist + 1] = again]
                /\ handle' = track_index_reset(handle)
                /\ pc' = "playlist_play_through"
                /\ UNCHANGED playlist_result
           ELSE /\ handle' = playlist_index_try_set(handle, "increment").handle
                /\ playlist_result' = ControlFlowFromUnit
                /\ pc' = "playlist_returned"
                /\ UNCHANGED playlists
    /\ last_signal' = "None"
    /\ UNCHANGED <<should_shuffle, self_playlist, shufflable, self_track,
                   whole_elapsed_time, track_result, result,
                   signals_received, received_at, played, unchecked_read, constructed, controls, serde, main, in_out>>

---------------------------------------------------------------------------
(* Track::play_through, running on playlists[self_playlist].tracks[self_track]. *)

(* The file is read, handed to the sink and set playing. *)
TrackPlayThrough ==
    /\ pc = "track_play_through"
    /\ handle' = playback_play(stream_play(handle))
    /\ whole_elapsed_time' = 0
    /\ played' = IF signals_received = 0 THEN Append(played, <<self_playlist, self_track>>)
                 ELSE played
    /\ pc' = "track_loop"
    /\ UNCHANGED <<playlists, should_shuffle, self_playlist, shufflable, self_track,
                   track_result, playlist_result, result,
                   signals_received, last_signal, received_at, unchecked_read, constructed, controls, serde, main, in_out>>

(* File::open, read_to_end or stream_play fails: the error leaves through `?`. *)
TrackOpenFails ==
    /\ pc = "track_play_through"
    /\ track_result' = "ErrIo"
    /\ pc' = "track_returned"
    /\ UNCHANGED <<playlists, handle, should_shuffle, self_playlist, shufflable, self_track,
                   whole_elapsed_time, playlist_result, result,
                   signals_received, last_signal, received_at, played, unchecked_read, constructed, controls, serde, main, in_out>>

(* whole_elapsed_time += moment.elapsed() unless paused: the whole seconds stay *)
(* or grow by one per tick, and are counted up to the threshold Second.      *)
Elapse(h, elapsed) ==
    IF playback_is_paused(h) THEN {elapsed}
    ELSE {elapsed, IF elapsed < Second THEN elapsed + 1 ELSE elapsed}

Ticking == pc = "track_loop" /\ ~playback_has_ended(handle)

(* signal_receive gives Ok(signal).  A signal that waits in the channel is    *)
(* taken from its head.  With the channel empty the signal is one that the    *)
(* control thread sends just before the tick, and of these MaxSignals are     *)
(* followed.                                                                  *)
Receive(signal) ==
    /\ Ticking
    /\ IF controls.signal_channel = <<>>
       THEN /\ ~thread_has_ended(controls)
            /\ signals_received < MaxSignals
            /\ UNCHANGED controls
       ELSE /\ signal = Head(controls.signal_channel)
            /\ controls' = signal_receive(controls)
    /\ signals_received' = signals_received + 1
    /\ last_signal' = signal
    /\ received_at' = [playlist |-> handle.current_playlist_index,
                       track |-> handle.current_track_index,
                       elapsed |-> whole_elapsed_time,
                       volume |-> volume_get_raw(handle)]
    /\ played' = <<>>

(* Err(TryRecvError::Empty) *)
TrackTickEmpty ==
    /\ Ticking
    /\ controls.signal_channel = <<>>
    /\ whole_elapsed_time' \in Elapse(handle, whole_elapsed_time)
    /\ last_signal' = "None"
    /\ received_at' = Nowhere
    /\ UNCHANGED <<playlists, handle, should_shuffle, pc, self_playlist, shufflable,
                   self_track, track_result, playlist_result, result,
                   signals_received, played, unchecked_read, constructed, controls, serde, main, in_out>>

(* Ok(Signal::Exit) *)
TrackSignalExit ==
    /\ Receive("Exit")
    /\ handle' = playback_clear(handle)
    /\ track_result' = "Break"
    /\ pc' = "track_returned"
    /\ whole_elapsed_time' = 0
    /\ UNCHANGED <<playlists, should_shuffle, self_playlist, shufflable, self_track,
                   playlist_result, result, unchecked_read, constructed, serde, main, in_out>>

(* Ok(signal) if signal.is_skip() *)
TrackSignalSkip ==
    \E signal \in {s \in Signals : is_skip(s)} :
       /\ Receive(signal)
       /\ LET cleared == playback_clear(handle)
              setter == IF is_next_skip(signal) THEN "increment" ELSE "decrement"
              set == IF is_track_skip(signal)
                     THEN track_index_try_set(cleared, setter)
                     ELSE playlist_index_try_set(cleared, setter)
          IN  /\ handle' = set.handle
              /\ track_result' = IF set.ok THEN "Skip" ELSE "ErrOutOfBounds"
       /\ pc' = "track_returned"
       /\ whole_elapsed_time' = 0
       /\ UNCHANGED <<playlists, should_shuffle, self_playlist, shufflable, self_track,
                      playlist_result, result, unchecked_read, constructed, serde, main, in_out>>

(* Ok(Signal::Play) *)
TrackSignalPlay ==
    /\ Receive("Play")
    /\ handle' = playback_toggle(handle)
    /\ whole_elapsed_time' \in Elapse(handle', whole_elapsed_time)
    /\ UNCHANGED <<playlists, should_shuffle, pc, self_playlist, shufflable, self_track,
                   track_result, playlist_result, result, unchecked_read, constructed, serde, main, in_out>>

(* Ok(Signal::PlaylistReset) and Ok(Signal::TrackReset) *)
TrackSignalReset ==
    \E signal \in {"PlaylistReset", "TrackReset"} :
       /\ Receive(signal)
       /\ handle' = IF signal = "PlaylistReset" THEN playlist_index_reset(handle)
                    ELSE track_index_reset(handle)
       /\ track_result' = ControlFlowFromUnit
       /\ pc' = "track_returned"
       /\ whole_elapsed_time' = 0
       /\ UNCHANGED <<playlists, should_shuffle, self_playlist, shufflable, self_track,
                      playlist_result, result, unchecked_read, constructed, serde, main, in_out>>

(* Ok(signal) if signal.is_volume().  Volume signals are not counted in       *)
(* signals_received: they are followed while the raw volume stays within      *)
(* MaxVolumeSteps of 0.                                                       *)
TrackSignalVolume ==
    \E signal \in {s \in Signals : is_volume(s)} :
       /\ Ticking
       /\ LET changed == CASE signal = "VolumeIncrease" -> volume_increment(handle)
                           [] signal = "VolumeDecrease" -> volume_decrement(handle)
                           [] signal = "Mute" -> volume_mute(handle)
                           [] signal = "VolumeReset" -> volume_reset(handle)
          IN  /\ volume_get_raw(changed) \in (-MaxVolumeSteps)..MaxVolumeSteps
              /\ handle' = volume_update(changed)
       /\ last_signal' = signal
       /\ received_at' = [playlist |-> handle.current_playlist_index,
                          track |-> handle.current_track_index,
                          elapsed |-> whole_elapsed_time,
                          volume |-> volume_get_raw(handle)]
       /\ whole_elapsed_time' \in Elapse(handle', whole_elapsed_time)
       /\ UNCHANGED <<playlists, should_shuffle, pc, self_playlist, shufflable, self_track,
                      track_result, playlist_result, result, signals_received, played,
                      unchecked_read, constructed, controls, serde, main, in_out>>

(* Err(TryRecvError::Disconnected) *)
TrackDisconnected ==
    /\ Ticking
    /\ controls.signal_channel = <<>>
    /\ track_result' = "ErrDisconnect"
    /\ pc' = "track_returned"
    /\ whole_elapsed_time' = 0
    /\ last_signal' = "None"
    /\ received_at' = Nowhere
    /\ UNCHANGED <<playlists, handle, should_shuffle, self_playlist, shufflable, self_track,
                   playlist_result, result,
                   signals_received, played, unchecked_read, constructed, controls, serde, main, in_out>>

(* The loop is left with the sink drained: replay while the repeat counter is *)
(* not 0, else move the track pointer on.                                    *)
TrackEnd ==
    /\ pc = "track_loop"
    /\ playback_has_ended(handle)
    /\ LET repeats == playlists[self_playlist + 1].tracks[self_track + 1].repeats
       IN  IF repeats_can(repeats)
           THEN /\ repeats > -MaxNegative
                /\ playlists' = [playlists EXCEPT
                                    ![self_playlist + 1].tracks[self_track + 1].repeats =
                                       repeats_update(repeats)]
                /\ pc' = "track_play_through"
                /\ UNCHANGED <<handle, track_result>>
           ELSE LET set == track_index_try_set(handle, "increment")
                IN  /\ handle' = set.handle
                    /\ track_result' = IF set.ok THEN ControlFlowFromUnit ELSE "ErrOutOfBounds"
                    /\ pc' = "track_returned"
                    /\ UNCHANGED playlists
    /\ whole_elapsed_time' = 0
    /\ last_signal' = "None"
    /\ received_at' = Nowhere
    /\ UNCHANGED <<should_shuffle, self_playlist, shufflable, self_track,
                   playlist_result, result,
                   signals_received, played, unchecked_read, constructed, controls, serde, main, in_out>>

(* The sink's own thread plays the stream to its end.  Only the condition of *)
(* the track loop reads whether it has, so the step is taken while it runs.  *)
SinkDrain ==
    /\ pc = "track_loop"
    /\ ~handle.sink.empty
    /\ ~handle.sink.paused
    /\ handle' = [handle EXCEPT !.sink.empty = TRUE]
    /\ UNCHANGED <<playlists, should_shuffle, pc, self_playlist, shufflable, self_track,
                   whole_elapsed_time, track_result, playlist_result, result,
                   signals_received, last_signal, received_at, played, unchecked_read, constructed, controls, serde, main, in_out>>

---------------------------------------------------------------------------
Next ==
    \/ AllPlaylistsPlay
    \/ AllPlaylistsPlayMatch
    \/ PlaylistPlayThrough
    \/ PlaylistMatch
    \/ PlaylistAfterLoop
    \/ TrackPlayThrough
    \/ TrackOpenFails
    \/ TrackTickEmpty
    \/ TrackSignalExit
    \/ TrackSignalSkip
    \/ TrackSignalPlay
    \/ TrackSignalReset
    \/ TrackDisconnected
    \/ TrackEnd
    \/ SinkDrain

(* The user leaves the volume keys alone. *)
Spec == Init /\ [][Next]_vars

(* The user works the volume keys too, while one playlist of one track plays. *)
InitVolume ==
    /\ playlists = <<NewPlaylist(<<0>>, 0, TRUE)>>
    /\ should_shuffle = FALSE
    /\ Called

SpecVolume == InitVolume /\ [][Next \/ TrackSignalVolume]_vars

(* The repeat counters on their own: a track and its playlist declared to      *)
(* repeat forever, and repeats_update called on either while repeats_can.      *)
InitRepeats ==
    /\ playlists = <<NewPlaylist(<<-1>>, -1, TRUE)>>
    /\ should_shuffle = FALSE
    /\ Called

TrackRepeatsUpdate ==
    /\ pc = "all_playlists_play"
    /\ LET repeats == playlists[1].tracks[1].repeats
       IN  /\ repeats_can(repeats)
           /\ \/ /\ playlists' = [playlists EXCEPT
                                      ![1].tracks[1].repeats = repeats_update(repeats)]
                 /\ UNCHANGED pc
              \/ /\ repeats_update_overflows(repeats)
                 /\ pc' = "panicked"
                 /\ UNCHANGED playlists
    /\ UNCHANGED <<handle, should_shuffle, self_playlist, shufflable, self_track,
                   whole_elapsed_time, track_result, playlist_result, result,
                   signals_received, last_signal, received_at, played, unchecked_read,
                   constructed, controls, serde, main, in_out>>

PlaylistRepeatsUpdate ==
    /\ pc = "all_playlists_play"
    /\ LET repeats == playlists[1].repeats
       IN  /\ repeats_can(repeats)
           /\ \/ /\ playlists' = [playlists EXCEPT ![1].repeats = repeats_update(repeats)]
                 /\ UNCHANGED pc
              \/ /\ repeats_update_overflows(repeats)
                 /\ pc' = "panicked"
                 /\ UNCHANGED playlists
    /\ UNCHANGED <<handle, should_shuffle, self_playlist, shufflable, self_track,
                   whole_elapsed_time, track_result, playlist_result, result,
                   signals_received, last_signal, received_at, played, unchecked_read,
                   constructed, controls, serde, main, in_out>>

(* The safe pointer operations of Playhandle called by its owner, one after    *)
(* another and in any order, between two runs of all_playlists_play.  Which    *)
(* one was called last is noted in last_signal, and where the pointers were    *)
(* before it in received_at.                                                   *)
InitHandle ==
    /\ playlists \in Constructed(1..MaxPlaylists, {0}, {0}, {TRUE})
    /\ should_shuffle = FALSE
    /\ Called

Noted(operation) ==
    /\ last_signal' = operation
    /\ received_at' = [Nowhere EXCEPT !.playlist = handle.current_playlist_index,
                                      !.track = handle.current_track_index]
    /\ UNCHANGED <<should_shuffle, pc, self_playlist, shufflable, self_track,
                   whole_elapsed_time, track_result, playlist_result, result,
                   signals_received, played, unchecked_read, controls, serde, main, in_out>>

PlaylistIndexTrySet ==
    \E setter \in {"increment", "decrement"} :
       /\ handle' = playlist_index_try_set(handle, setter).handle
       /\ Noted("playlist_index_try_set")
       /\ UNCHANGED <<playlists, constructed, controls, serde, main, in_out>>

TrackIndexTrySet ==
    \E setter \in {"increment", "decrement"} :
       /\ handle' = track_index_try_set(handle, setter).handle
       /\ Noted("track_index_try_set")
       /\ UNCHANGED <<playlists, constructed, controls, serde, main, in_out>>

PlaylistIndexReset ==
    /\ handle' = playlist_index_reset(handle)
    /\ Noted("playlist_index_reset")
    /\ UNCHANGED <<playlists, constructed, controls, serde, main, in_out>>

TrackIndexReset ==
    /\ handle' = track_index_reset(handle)
    /\ Noted("track_index_reset")
    /\ UNCHANGED <<playlists, constructed, controls, serde, main, in_out>>

(* Playhandle::playlists_swap *)
PlaylistsSwap ==
    \E new \in Constructed(1..MaxPlaylists, {0}, {0}, {TRUE}) :
       /\ playlists' = new
       /\ constructed' = new
       /\ handle' = playlist_index_reset(playback_clear(handle))
       /\ Noted("playlists_swap")

NextHandle ==
    \/ PlaylistIndexTrySet
    \/ TrackIndexTrySet
    \/ PlaylistIndexReset
    \/ TrackIndexReset
    \/ PlaylistsSwap

SpecHandle == InitHandle /\ [][NextHandle]_vars

(* The control thread of Bundle::with and the owner of its Controls           *)
(* (in_out.rs).  Nothing of the playback moves.                                *)
InitControls ==
    /\ playlists = <<NewPlaylist(<<0>>, 0, TRUE)>>
    /\ should_shuffle = FALSE
    /\ Called

PlaybackUnchanged ==
    UNCHANGED <<playlists, handle, should_shuffle, pc, self_playlist, shufflable,
                self_track, whole_elapsed_time, track_result, playlist_result, result,
                signals_received, last_signal, received_at, played, unchecked_read,
                constructed, serde, main, in_out>>

(* The signals of the key-binding table other than Exit. *)
BoundSignals ==
    {"PlaylistNext", "PlaylistBack", "TrackNext", "TrackBack", "Play", "Mute",
     "VolumeIncrease", "VolumeDecrease"}

(* A return that goes round the loop once more instead. *)
Ended_looping(c, by) == [c EXCEPT !.control_thread = "recv_timeout", !.ended_by = by]

(* The closure of the thread returns, or unwinds on a panic. *)
Ended(c, by) == [c EXCEPT !.control_thread = "terminated", !.ended_by = by]

(* notify_exit that sends nothing. *)
notify_exit_silent(c) == c

(* Controls::notify_exit: let _ = exit_notifier.send(()).  The send fails, and  *)
(* the failure is dropped, when the thread has ended and its receiver is gone.  *)
notify_exit(c) ==
    IF thread_has_ended(c) THEN c ELSE [c EXCEPT !.exit_channel = @ + 1]

(* while let Err(Timeout) = exit_receiver.recv_timeout(TICK): a message ends    *)
(* the loop and the thread, a timeout enters the body.                         *)
ThreadRecvTimeout ==
    /\ controls.control_thread = "recv_timeout"
    /\ controls' = IF controls.exit_channel > 0
                   THEN Ended([controls EXCEPT !.exit_channel = @ - 1], "notify")
                   ELSE [controls EXCEPT !.control_thread = "poll"]
    /\ PlaybackUnchanged

(* event::poll(TICK): true with an event at hand, false after TICK without     *)
(* one, a panic on an error of the terminal.                                   *)
ThreadPoll ==
    /\ controls.control_thread = "poll"
    /\ LET polled == [controls EXCEPT !.polls = IF controls.owner = "running" THEN @
                                                ELSE IF @ < MaxPolls THEN @ + 1 ELSE @]
       IN  \/ /\ controls.events > 0
              /\ controls' = [polled EXCEPT !.control_thread = "read", !.events = @ - 1]
           \/ controls' = [polled EXCEPT !.control_thread = "recv_timeout"]
           \/ controls' = Ended(polled, "panic")
    /\ PlaybackUnchanged

(* event::read() and the match on it: the exit keys send Exit and return, a    *)
(* bound key gives its signal, any other event goes round the loop.            *)
ThreadRead ==
    /\ controls.control_thread = "read"
    /\ \/ controls' = Ended(signal_send(controls, "Exit"), "exit_key")
       \/ \E signal \in BoundSignals :
             controls' = [controls EXCEPT !.control_thread = "send", !.signal = signal]
       \/ controls' = [controls EXCEPT !.control_thread = "recv_timeout"]
       \/ controls' = Ended(controls, "panic")
    /\ PlaybackUnchanged

(* signal_sender.send(signal) on the unbounded channel; the receiver lives as  *)
(* long as the Controls, which clean_up drops after its join.                  *)
ThreadSend ==
    /\ controls.control_thread = "send"
    /\ controls' = [signal_send(controls, controls.signal) EXCEPT
                       !.signal = "None", !.control_thread = "recv_timeout"]
    /\ PlaybackUnchanged

ControlThread == ThreadRecvTimeout \/ ThreadPoll \/ ThreadRead \/ ThreadSend

(* Controls::receive_signal with a signal waiting. *)
OwnerReceiveSignal ==
    /\ controls.owner = "running"
    /\ controls.signal_channel # <<>>
    /\ controls' = receive_signal(controls)
    /\ PlaybackUnchanged

OwnerNotifyExit ==
    /\ controls.owner = "running"
    /\ controls' = [notify_exit(controls) EXCEPT !.owner = "notified"]
    /\ PlaybackUnchanged

(* Controls::clean_up: control_thread.join() is called, and returns once the   *)
(* thread has ended, by return or by panic.                                    *)
OwnerCleanUp ==
    /\ controls.owner = "notified"
    /\ controls' = [controls EXCEPT !.owner = "joining"]
    /\ PlaybackUnchanged

OwnerJoinReturns ==
    /\ controls.owner = "joining"
    /\ thread_has_ended(controls)
    /\ controls' = [controls EXCEPT !.owner = "cleaned_up"]
    /\ PlaybackUnchanged

NextControls ==
    \/ ThreadRecvTimeout
    \/ ThreadPoll
    \/ ThreadRead
    \/ ThreadSend
    \/ OwnerReceiveSignal
    \/ OwnerNotifyExit
    \/ OwnerCleanUp
    \/ OwnerJoinReturns

SpecControls == InitControls /\ [][NextControls]_vars

(* The thread is an OS thread of its own and each of its calls comes back      *)
(* within TICK, so it keeps taking steps; join comes back once it has ended.   *)
SpecControlsFair ==
    /\ SpecControls
    /\ WF_vars(ControlThread)
    /\ WF_vars(OwnerJoinReturns)

(* all_playlists_play with the control thread beside it: the thread sends     *)
(* signals, which wait in the channel for the ticks of the playback, until on  *)
(* the exit key it sends Exit and ends.                                        *)
InitExit ==
    /\ playlists \in Constructed(1..MaxPlaylists, {-1, 0}, {-1, 0}, {TRUE})
    /\ should_shuffle = FALSE
    /\ Called

Running == pc \notin {"returned", "crashed", "panicked"}

ThreadSendsSignal ==
    /\ Running
    /\ ~thread_has_ended(controls)
    /\ signals_received + Len(controls.signal_channel) < MaxSignals
    /\ \E signal \in {s \in Signals : s # "Exit" /\ ~is_volume(s)} :
          controls' = [controls EXCEPT !.signal_channel = Append(@, signal)]
    /\ PlaybackUnchanged

ThreadSendsExit ==
    /\ Running
    /\ ~thread_has_ended(controls)
    /\ controls' = Ended([controls EXCEPT !.signal_channel = Append(@, "Exit")],
                         "exit_key")
    /\ PlaybackUnchanged

NextExit == Next \/ ThreadSendsSignal \/ ThreadSendsExit

SpecExit == InitExit /\ [][NextExit]_vars

(* The playback runs on the main thread and takes its next step whenever it    *)
(* has one; signal_receive does not block.                                     *)
SpecExitFair == SpecExit /\ WF_vars(Next)

(* all_playlists_play with a control thread that sends nothing: no signal is   *)
(* received, so the sink is never paused.  A file may fail to open and the     *)
(* channel may be found disconnected.                                          *)
InitQuiet ==
    /\ playlists \in Constructed(1..MaxPlaylists, {-1, 0, 1}, {0, 1}, {TRUE})
    /\ should_shuffle = FALSE
    /\ Called

(* The steps of the three play functions that no signal and no failure takes. *)
QuietPlayback ==
    \/ AllPlaylistsPlay
    \/ AllPlaylistsPlayMatch
    \/ PlaylistPlayThrough
    \/ PlaylistMatch
    \/ PlaylistAfterLoop
    \/ TrackPlayThrough
    \/ TrackTickEmpty
    \/ TrackEnd

NextQuiet ==
    \/ QuietPlayback
    \/ TrackOpenFails
    \/ TrackDisconnected
    \/ SinkDrain

SpecQuiet == InitQuiet /\ [][NextQuiet]_vars

(* The playback runs on the main thread and takes its next step whenever it    *)
(* has one, and the sink's thread plays every stream it was handed to its end. *)
(* A failure may happen and is never bound to.                                 *)
SpecQuietFair == SpecQuiet /\ WF_vars(QuietPlayback) /\ WF_vars(SinkDrain)

(* The descriptors on their own (serde.rs): a list of SerDePlaylists as they   *)
(* are parsed, on one of which vary_set or vary_unset may be called before a   *)
(* Playlist is built from it, or before the list is flattened.  `call` is the  *)
(* one that was called, `state` the state it was given and `at` the descriptor *)
(* it was called on.                                                           *)
Songs ==
    {<<>>,
     <<[file |-> "a", time |-> None]>>,
     <<[file |-> "b", time |-> Some(2)], [file |-> "a", time |-> None]>>}

Descriptors ==
    [song : Songs, time : {None, Some(-1), Some(2)}, vary : {None, Some(TRUE), Some(FALSE)}]

InitSerDe ==
    /\ playlists = <<NewPlaylist(<<0>>, 0, TRUE)>>
    /\ should_shuffle = FALSE
    /\ Fresh
    /\ NoMain
    /\ NoInOut
    /\ \E length \in 0..MaxPlaylists :
          serde \in {[NoDescriptors EXCEPT !.lists = lists] :
                       lists \in [1..length -> Descriptors]}

DescriptorsOnly ==
    UNCHANGED <<playlists, handle, should_shuffle, pc, self_playlist, shufflable,
                self_track, whole_elapsed_time, track_result, playlist_result, result,
                signals_received, last_signal, received_at, played, unchecked_read,
                constructed, controls, main, in_out>>

Untouched == serde.built = None /\ serde.flattened = None

VarySet ==
    /\ Untouched
    /\ serde.state = None
    /\ \E i \in 1..Len(serde.lists), state \in BOOLEAN :
          serde' = [serde EXCEPT !.lists[i] = vary_set(@, state), !.call = "vary_set",
                                 !.state = Some(state), !.at = i]
    /\ DescriptorsOnly

VaryUnset ==
    /\ Untouched
    /\ serde.state = None
    /\ \E i \in 1..Len(serde.lists) :
          serde' = [serde EXCEPT !.lists[i] = vary_unset(@), !.call = "vary_unset",
                                 !.state = Some(FALSE), !.at = i]
    /\ DescriptorsOnly

PlaylistTryFrom ==
    /\ Untouched
    /\ \E i \in 1..Len(serde.lists) :
          /\ serde.at \in {0, i}
          /\ serde' = [serde EXCEPT !.built = Some(Playlist_try_from(serde.lists[i]))]
    /\ DescriptorsOnly

Flatten ==
    /\ Untouched
    /\ serde' = [serde EXCEPT !.flattened = Some(flatten(serde.lists))]
    /\ DescriptorsOnly

NextSerDe == VarySet \/ VaryUnset \/ PlaylistTryFrom \/ Flatten

SpecSerDe == InitSerDe /\ [][NextSerDe]_vars

NextRepeats == TrackRepeatsUpdate \/ PlaylistRepeatsUpdate

SpecRepeats == InitRepeats /\ [][NextRepeats]_vars

(* Playback of one playlist with shuffling asked for or not, which the        *)
(* playlist allows or not; its tracks carry no repeat counts.  Playlist::shuffle *)
(* works on the track_map of one Playlist.                                   *)
InitShuffle ==
    /\ playlists \in Constructed({1}, RepeatValues, {0}, BOOLEAN)
    /\ should_shuffle \in BOOLEAN
    /\ Called

SpecShuffle == InitShuffle /\ [][Next]_vars

---------------------------------------------------------------------------
(* main.rs: the 'queue loop of main and the Playback-Control thread beside it. *)

MainOnly ==
    UNCHANGED <<playlists, handle, should_shuffle, pc, self_playlist, shufflable,
                self_track, whole_elapsed_time, track_result, playlist_result, result,
                signals_received, last_signal, received_at, played, unchecked_read,
                constructed, controls, serde, in_out>>

(* The lists given on the command line: the first with one song that may be    *)
(* declared with a time, the others plain.                                     *)
MainLists(counts, list_times) ==
    { [l \in 1..count |->
          IF l = 1
          THEN [song |-> [i \in 1..first |-> IF i = at THEN song_time ELSE 0],
                time |-> list_time]
          ELSE [song |-> [i \in 1..rest |-> 0], time |-> 0]] :
        count \in counts, first \in 1..MaxTracks, rest \in 1..MaxTracks,
        at \in 1..MaxTracks, song_time \in {0, 1}, list_time \in list_times }

MainCalled(lists) ==
    /\ playlists = <<NewPlaylist(<<0>>, 0, TRUE)>>
    /\ should_shuffle = FALSE
    /\ Fresh
    /\ serde = NoDescriptors
    /\ NoInOut
    /\ main \in {NewMain(list) : list \in lists}

InitMain == MainCalled(MainLists(1..MaxPlaylists, {0, 1}))

(* fastrand's Rng::shuffle: the songs in any order. *)
generator_shuffle(song) ==
    LET indices == 1..Len(song)
    IN  { [i \in indices |-> song[order[i]]] :
            order \in {o \in [indices -> indices] : \A i, j \in indices : i # j => o[i] # o[j]} }

(* JoinHandle::is_finished of the control thread. *)
is_finished(control) == control \in {"finished", "panicked"}

(* Head of 'queue: the songs of the list are cloned, shuffled and loaded. *)
MainQueue ==
    /\ main.pc = "queue"
    /\ IF main.list_index < Len(main.lists)
       THEN \E shuffled \in generator_shuffle(main.lists[main.list_index + 1].song) :
               main' = [main EXCEPT !.old_list_index = main.list_index,
                                    !.song = shuffled,
                                    !.song_index = 0,
                                    !.since = 0,
                                    !.pc = "playlist"]
       ELSE main' = [main EXCEPT !.pc = "done"]
    /\ MainOnly

(* Head of 'playlist: play_once gives the playback of the song; or the loop is *)
(* left, and next(list_time, &mut list_index) follows it.                      *)
MainPlaylist ==
    /\ main.pc = "playlist"
    /\ IF main.song_index < Len(main.song) /\ ~is_finished(main.control)
       THEN main' = [main EXCEPT !.old_song_index = main.song_index,
                                 !.elapsed = 0,
                                 !.paused = FALSE,
                                 !.pc = "song"]
       ELSE LET list_time == main.lists[main.old_list_index + 1].time
                after == next(list_time, main.list_index)
            IN  \/ main' = [main EXCEPT !.lists[main.old_list_index + 1].time = after.time,
                                        !.list_index = after.index,
                                        !.pc = "queue"]
                \/ /\ next_overflows(list_time)
                   /\ main' = [main EXCEPT !.pc = "panicked"]
    /\ MainOnly

(* play_once gives Err: break 'queue. *)
MainPlayOnceFails ==
    /\ main.pc = "playlist"
    /\ main.song_index < Len(main.song)
    /\ ~is_finished(main.control)
    /\ main' = [main EXCEPT !.pc = "done"]
    /\ MainOnly

(* The while loop of 'song_playback is at its recv_deadline. *)
MainInSong == main.pc = "song" /\ main.elapsed <= duration

(* elapsed += by, and the time the playlist has been playing with it. *)
MainElapsed(m, by) ==
    [m EXCEPT !.elapsed = @ + by,
              !.since = IF @ + by > SECOND THEN SECOND + 1 ELSE @ + by]

(* Err(RecvTimeoutError::Timeout) *)
MainTimeout ==
    /\ MainInSong
    /\ main.signal = <<>>
    /\ ~is_finished(main.control)
    /\ main' = IF main.paused THEN main ELSE MainElapsed(main, FOURTH_SECOND)
    /\ MainOnly

(* Err(RecvTimeoutError::Disconnected): the thread is gone and nothing waits. *)
MainDisconnected ==
    /\ MainInSong
    /\ main.signal = <<>>
    /\ is_finished(main.control)
    /\ main' = [main EXCEPT !.pc = "done"]
    /\ MainOnly

(* Ok(signal): the signal at the head of the channel is taken. *)
MainReceives(signal) ==
    /\ MainInSong
    /\ main.signal # <<>>
    /\ Head(main.signal) = signal

MainReceived == [main EXCEPT !.signal = Tail(@)]

(* Ok(Signal::ManualExit) => break 'queue *)
MainManualExit ==
    /\ MainReceives("ManualExit")
    /\ main' = [MainReceived EXCEPT !.pc = "done"]
    /\ MainOnly

(* Ok(Signal::SkipNextPlaylist): *list_time = 0; break 'playlist, and the next *)
(* behind the loop moves list_index on.                                        *)
MainSkipNextPlaylist ==
    /\ MainReceives("SkipNextPlaylist")
    /\ main' = [MainReceived EXCEPT !.lists[main.old_list_index + 1].time = 0,
                                    !.list_index = next(0, @).index,
                                    !.pc = "queue"]
    /\ MainOnly

(* Ok(Signal::SkipBackPlaylist): break 'list_playback, past the next. *)
MainSkipBackPlaylist ==
    /\ MainReceives("SkipBackPlaylist")
    /\ main' = [MainReceived EXCEPT
                   !.list_index = IF main.old_list_index > 0 /\ main.elapsed <= SECOND
                                  THEN @ - 1 ELSE @,
                   !.pc = "queue"]
    /\ MainOnly

(* Ok(Signal::SkipNext): *song_time = 0; break, and the next behind the while  *)
(* moves song_index on.                                                        *)
MainSkipNext ==
    /\ MainReceives("SkipNext")
    /\ main' = [MainReceived EXCEPT !.song[main.old_song_index + 1] = 0,
                                    !.song_index = next(0, @).index,
                                    !.pc = "playlist"]
    /\ MainOnly

(* Ok(Signal::SkipBack): break 'song_playback, past the next. *)
MainSkipBack ==
    /\ MainReceives("SkipBack")
    /\ main' = [MainReceived EXCEPT
                   !.song_index = IF main.old_song_index > 0 /\ main.elapsed <= SECOND
                                  THEN @ - 1 ELSE @,
                   !.pc = "playlist"]
    /\ MainOnly

(* Ok(Signal::TogglePlayback): now.elapsed() is less than the wait. *)
MainTogglePlayback ==
    /\ MainReceives("TogglePlayback")
    /\ \E by \in 0..(FOURTH_SECOND - 1) :
          main' = MainElapsed([MainReceived EXCEPT !.paused = ~@], by)
    /\ MainOnly

(* The while loop ends with elapsed past the duration: next(song_time, ..). *)
MainSongEnds ==
    /\ main.pc = "song"
    /\ main.elapsed > duration
    /\ LET song_time == main.song[main.old_song_index + 1]
           after == next(song_time, main.song_index)
       IN  \/ main' = [main EXCEPT !.song[main.old_song_index + 1] = after.time,
                                   !.song_index = after.index,
                                   !.pc = "playlist"]
           \/ /\ next_overflows(song_time)
              /\ main' = [main EXCEPT !.pc = "panicked"]
    /\ MainOnly

MainRunning == main.pc \notin {"done", "panicked"}

(* The control thread reads a key other than c and sends its signal; MaxSignals *)
(* of them are followed.                                                       *)
MainControlSends ==
    /\ MainRunning
    /\ main.control = "running"
    /\ main.sent < MaxSignals
    /\ \E signal \in MainSignals \ {"ManualExit"} :
          main' = [main EXCEPT !.signal = Append(@, signal), !.sent = @ + 1]
    /\ MainOnly

(* It reads c: sender.send(Signal::ManualExit), then return. *)
MainControlSendsManualExit ==
    /\ MainRunning
    /\ main.control = "running"
    /\ main' = [main EXCEPT !.signal = Append(@, "ManualExit"), !.control = "returning"]
    /\ MainOnly

(* The closure has returned: is_finished() is true and the sender is dropped. *)
MainControlReturns ==
    /\ main.control = "returning"
    /\ main' = [main EXCEPT !.control = "finished"]
    /\ MainOnly

(* event::poll or event::read gives Err: the thread panics. *)
MainControlPanics ==
    /\ MainRunning
    /\ main.control = "running"
    /\ main' = [main EXCEPT !.control = "panicked"]
    /\ MainOnly

MainThread ==
    \/ MainQueue
    \/ MainPlaylist
    \/ MainTimeout
    \/ MainDisconnected
    \/ MainManualExit
    \/ MainSkipNextPlaylist
    \/ MainSkipBackPlaylist
    \/ MainSkipNext
    \/ MainSkipBack
    \/ MainTogglePlayback
    \/ MainSongEnds

NextMain ==
    \/ MainThread
    \/ MainPlayOnceFails
    \/ MainControlSends
    \/ MainControlSendsManualExit
    \/ MainControlReturns
    \/ MainControlPanics

SpecMain == InitMain /\ [][NextMain]_vars

(* One list, which may be declared to repeat forever. *)
InitMainExit ==
    MainCalled({<<[song |-> <<0>>, time |-> list_time]>> : list_time \in {-1, 0, 1}})

SpecMainExit == InitMainExit /\ [][NextMain]_vars

(* The main thread takes its next step whenever it has one (recv_deadline      *)
(* returns within FOURTH_SECOND), and the control thread's closure returns     *)
(* after its `return`.                                                         *)
SpecMainExitFair == SpecMainExit /\ WF_vars(MainThread) /\ WF_vars(MainControlReturns)

---------------------------------------------------------------------------
(* in_out.rs: UnwrappedPlaylist::play and the UnwrappedTrack::play it calls.   *)

InOutOnly ==
    UNCHANGED <<playlists, handle, should_shuffle, pc, self_playlist, shufflable,
                self_track, whole_elapsed_time, track_result, playlist_result, result,
                signals_received, last_signal, received_at, played, unchecked_read,
                constructed, controls, serde, main>>

(* f32::clamp *)
clamp(value, low, high) == IF value < low THEN low ELSE IF value > high THEN high ELSE value

(* get_volume: VOLUME.clamp(0.0, 2.0) *)
get_volume(VOLUME) == clamp(VOLUME, 0, 2 * StepsPerUnit)

(* set_volume: VOLUME = new(VOLUME).clamp(-1.0, 2.0), with new(VOLUME) given. *)
set_volume(new) == clamp(new, -StepsPerUnit, 2 * StepsPerUnit)

(* 0.05, in steps. *)
VolumeStep == StepsPerUnit \div 20

(* VOLUME when play is called: 1.0 as declared, or where earlier volume        *)
(* signals left it, a multiple of 0.05 from -1.0 to 2.0, of which the ends,    *)
(* 0.0, 0.5 and 1.05 are followed.                                             *)
InitVolumes ==
    {-StepsPerUnit, 0, StepsPerUnit \div 2, NewVOLUME, NewVOLUME + VolumeStep, 2 * StepsPerUnit}

(* An UnwrappedPlaylist of up to MaxTracks tracks, one of which may be declared *)
(* with a time, about to be played; VOLUME is as the playlists before left it.  *)
InitInOut ==
    /\ playlists = <<NewPlaylist(<<0>>, 0, TRUE)>>
    /\ should_shuffle = FALSE
    /\ Fresh
    /\ serde = NoDescriptors
    /\ NoMain
    /\ \E length \in 1..MaxTracks, at \in 1..MaxTracks, time \in {0, 1},
          repeats \in {-1, 0, 1, 2}, VOLUME \in InitVolumes, has_controls \in BOOLEAN :
          in_out = [NewUnwrappedPlaylist([i \in 1..length |-> IF i = at THEN time ELSE 0],
                                         repeats)
                       EXCEPT !.VOLUME = VOLUME, !.has_controls = has_controls]

(* UnwrappedPlaylist::play is called: let old = self.track_index. *)
UnwrappedPlaylistPlay ==
    /\ in_out.pc = "play"
    /\ in_out' = [in_out EXCEPT !.old = in_out.track_index, !.pc = "outer"]
    /\ InOutOnly

(* Head of `while self.repeats != 0`; past it, None is returned. *)
UnwrappedPlaylistOuter ==
    /\ in_out.pc = "outer"
    /\ in_out' = IF in_out.repeats # 0
                 THEN [in_out EXCEPT !.pc = "inner"]
                 ELSE [in_out EXCEPT !.instruction = "None", !.pc = "returned"]
    /\ InOutOnly

(* Head of `while self.track_index < length`: the track at old is played, its  *)
(* sink set to get_volume().  Past the loop self.repeats, which is not 0, is   *)
(* decremented: with overflow checks that panics at isize::MIN.                *)
UnwrappedPlaylistInner ==
    /\ in_out.pc = "inner"
    /\ IF in_out.track_index < Len(in_out.tracks)
       THEN in_out' = [in_out EXCEPT !.elapsed = 0,
                                     !.paused = FALSE,
                                     !.volume = get_volume(in_out.VOLUME),
                                     !.played = Append(@, in_out.old),
                                     !.pc = "track"]
       ELSE \/ in_out' = [in_out EXCEPT !.repeats = repeats_update(@), !.pc = "outer"]
            \/ /\ repeats_update_overflows(in_out.repeats)
               /\ in_out' = [in_out EXCEPT !.pc = "panicked"]
    /\ InOutOnly

(* play_file gives Err: UnwrappedTrack::play returns Some(NextNone). *)
UnwrappedTrackPlayFileFails ==
    /\ in_out.pc = "inner"
    /\ in_out.track_index < Len(in_out.tracks)
    /\ in_out' = [in_out EXCEPT !.track_index = @ + 1, !.failed = TRUE]
    /\ InOutOnly

(* What UnwrappedPlaylist::play does when track.play returned None. *)
TrackReturnedNone(p) ==
    IF p.tracks[p.old + 1] # 0
    THEN [p EXCEPT !.tracks[p.old + 1] = repeats_update(@), !.pc = "inner"]
    ELSE [p EXCEPT !.track_index = @ + 1, !.pc = "inner"]

(* The Bundle holds no Controls: sleep_until_end, and None. *)
UnwrappedTrackSleepUntilEnd ==
    /\ in_out.pc = "track"
    /\ ~in_out.has_controls
    /\ in_out' = TrackReturnedNone([in_out EXCEPT !.since = TwoSeconds + 1])
    /\ InOutOnly

(* The while loop of UnwrappedTrack::play is at its receive_signal. *)
InTrack == in_out.pc = "track" /\ in_out.has_controls /\ in_out.elapsed <= track_duration

under_threshhold == in_out.elapsed <= TwoSeconds

(* elapsed += by, and the time since play was called with it. *)
InOutElapsed(p, by) ==
    [p EXCEPT !.elapsed = @ + by,
              !.since = IF @ + by > TwoSeconds THEN TwoSeconds + 1 ELSE @ + by]

(* Err(RecvTimeoutError::Timeout) *)
UnwrappedTrackTimeout ==
    /\ InTrack
    /\ in_out' = IF in_out.paused THEN in_out ELSE InOutElapsed(in_out, TICK)
    /\ InOutOnly

(* Ok(signal): MaxSignals signals are followed.  A run of Mute signals ends    *)
(* with any other signal.                                                      *)
InOutReceives(signal) ==
    /\ InTrack
    /\ in_out.received < MaxSignals

InOutReceived(signal) ==
    [in_out EXCEPT !.received = @ + 1,
                   !.mutes = IF signal = "Mute" THEN @ ELSE [count |-> 0, from |-> 0]]

(* Some(handled_by_outer) => return Some(handled_by_outer) *)
TrackReturned(p, instruction) == [p EXCEPT !.instruction = instruction, !.pc = "returned"]

(* Ok(Signal::PlaylistNext) *)
UnwrappedTrackPlaylistNext ==
    /\ InOutReceives("PlaylistNext")
    /\ in_out' = TrackReturned(InOutReceived("PlaylistNext"), "NextNext")
    /\ InOutOnly

(* Ok(Signal::PlaylistBack): BackBack goes to the caller, HoldNoop plays on. *)
UnwrappedTrackPlaylistBack ==
    /\ InOutReceives("PlaylistBack")
    /\ in_out' = IF under_threshhold
                 THEN TrackReturned(InOutReceived("PlaylistBack"), "BackBack")
                 ELSE [InOutReceived("PlaylistBack") EXCEPT !.pc = "inner"]
    /\ InOutOnly

(* Ok(Signal::Exit), and Err(RecvTimeoutError::Disconnected) *)
UnwrappedTrackExit ==
    /\ \/ /\ InOutReceives("Exit")
          /\ in_out' = TrackReturned(InOutReceived("Exit"), "ExitQuit")
       \/ /\ InTrack
          /\ in_out' = TrackReturned(in_out, "ExitQuit")
    /\ InOutOnly

(* Ok(Signal::TrackNext): NextNone => self.track_index += 1 *)
UnwrappedTrackTrackNext ==
    /\ InOutReceives("TrackNext")
    /\ in_out' = [InOutReceived("TrackNext") EXCEPT !.track_index = @ + 1, !.pc = "inner"]
    /\ InOutOnly

(* Ok(Signal::TrackBack): BackNone => self.track_index -= (self.track_index > 0) *)
UnwrappedTrackTrackBack ==
    /\ InOutReceives("TrackBack")
    /\ in_out' = [InOutReceived("TrackBack") EXCEPT
                     !.track_index = IF under_threshhold /\ @ > 0 THEN @ - 1 ELSE @,
                     !.pc = "inner"]
    /\ InOutOnly

(* Ok(Signal::Play): now.elapsed() is less than a tick. *)
UnwrappedTrackPlay ==
    /\ InOutReceives("Play")
    /\ in_out' = [InOutReceived("Play") EXCEPT !.paused = ~@]
    /\ InOutOnly

(* The setter of a volume signal applied to the old VOLUME. *)
volume_setter(signal, old) ==
    CASE signal = "VolumeIncrease" -> old + VolumeStep
      [] signal = "VolumeDecrease" -> old - VolumeStep
      [] signal = "Mute" -> old + 2 * (-old)

(* Ok(_) if is_paused => continue; else update_volume(setter): set_volume, and *)
(* the sink set to get_volume().                                               *)
UnwrappedTrackVolume ==
    \E signal \in {"VolumeIncrease", "VolumeDecrease", "Mute"} :
       /\ InOutReceives(signal)
       /\ in_out' =
             IF in_out.paused THEN [in_out EXCEPT !.received = @ + 1]
             ELSE LET new == set_volume(volume_setter(signal, in_out.VOLUME))
                  IN  [InOutReceived(signal) EXCEPT
                          !.VOLUME = new,
                          !.volume = get_volume(new),
                          !.mutes = IF signal # "Mute" THEN @
                                    ELSE IF in_out.mutes.count = 1
                                    THEN [@ EXCEPT !.count = 2]
                                    ELSE [count |-> 1, from |-> in_out.VOLUME]]
       /\ InOutOnly

(* The loop ends with elapsed past the duration: None. *)
UnwrappedTrackEnds ==
    /\ in_out.pc = "track"
    /\ in_out.has_controls
    /\ in_out.elapsed > track_duration
    /\ \/ in_out' = TrackReturnedNone(in_out)
       \/ /\ in_out.tracks[in_out.old + 1] # 0
          /\ repeats_update_overflows(in_out.tracks[in_out.old + 1])
          /\ in_out' = [in_out EXCEPT !.pc = "panicked"]
    /\ InOutOnly

NextInOut ==
    \/ UnwrappedPlaylistPlay
    \/ UnwrappedPlaylistOuter
    \/ UnwrappedPlaylistInner
    \/ UnwrappedTrackPlayFileFails
    \/ UnwrappedTrackSleepUntilEnd
    \/ UnwrappedTrackTimeout
    \/ UnwrappedTrackPlaylistNext
    \/ UnwrappedTrackPlaylistBack
    \/ UnwrappedTrackExit
    \/ UnwrappedTrackTrackNext
    \/ UnwrappedTrackTrackBack
    \/ UnwrappedTrackPlay
    \/ UnwrappedTrackVolume
    \/ UnwrappedTrackEnds

SpecInOut == InitInOut /\ [][NextInOut]_vars

---------------------------------------------------------------------------
(* Properties. *)

(* No signal has been taken from the channel. *)
Quiet == signals_received = 0

(* The playlist was declared without repeat counts. *)
NoRepeats(playlist) ==
    /\ playlist.repeats = 0
    /\ \A t \in 1..Len(playlist.tracks) : playlist.tracks[t].repeats = 0

(* The streams of playlist p (1-based) in declared order. *)
DeclaredOrder(p) == [t \in 1..Len(constructed[p].tracks) |-> <<p - 1, t - 1>>]

(* The streams of the playlists p, p + 1, .. in index order. *)
RECURSIVE AllInOrder(_)
AllInOrder(p) ==
    IF p > Len(constructed) THEN <<>> ELSE DeclaredOrder(p) \o AllInOrder(p + 1)

(* Positions inside Playlist::play_through and the calls it makes. *)
PlaylistFrames == {"playlist_play_through", "playlist_after_loop", "track_play_through",
                   "track_loop", "track_returned", "playlist_returned"}

(* C1: with K >= 2 playlists, all repeat counters 0 and no signal, a call of  *)
(* all_playlists_play that returns Default has played every track of every    *)
(* playlist, the playlists in index order.                                    *)
C1_SequentialPlayback ==
    ( /\ pc = "returned"
      /\ result = "Default"
      /\ Quiet
      /\ Len(constructed) >= 2
      /\ \A p \in 1..Len(constructed) : NoRepeats(constructed[p]) )
    => played = AllInOrder(1)

(* C2: no unchecked lookup is handed an index out of range, whatever signals  *)
(* arrive: playlists is read below playlists_count, and nth_unchecked below    *)
(* the track count of the Playlist that play_through runs on.                  *)
C2_NoOutOfBoundsRead == unchecked_read = "none"

(* Track::play_through of playlist 0 has just returned on a PlaylistNext taken *)
(* while track 0 of playlist 0 of two playlists was playing.                   *)
C3_PlaylistNextTaken ==
    /\ pc = "track_returned"
    /\ last_signal = "PlaylistNext"
    /\ Len(playlists) = 2
    /\ self_playlist = 0
    /\ received_at.playlist = 0
    /\ received_at.track = 0

(* C3: with two playlists, PlaylistNext during playlist 0 track 0 makes the    *)
(* playlist pointer 1 and the track pointer 0, and Playlist::play_through of   *)
(* playlist 0 then returns Skip instead of going on with its track loop.       *)
C3_PlaylistNextLeavesAsSkip ==
    [][C3_PlaylistNextTaken =>
          /\ handle.current_playlist_index = 1
          /\ handle.current_track_index = 0
          /\ pc' = "playlist_returned"
          /\ playlist_result' = "Skip"]_vars

(* A quiet run over a first playlist of three tracks declared without repeat  *)
(* counts, inside its Playlist::play_through.                                  *)
C4_ThreeTracks ==
    /\ Quiet
    /\ pc \in PlaylistFrames
    /\ self_playlist = 0
    /\ Len(constructed[1].tracks) = 3
    /\ NoRepeats(constructed[1])

(* seq is an initial part of full. *)
IsPrefix(seq, full) == Len(seq) <= Len(full) /\ seq = SubSeq(full, 1, Len(seq))

(* C4 as stated: a playlist of 3 tracks without repeats and unshuffled is      *)
(* played 0, 1, 2, each track once, and the playlist pointer is then advanced  *)
(* by one.                                                                     *)
C4_PointerAdvances ==
    (C4_ThreeTracks /\ pc = "playlist_returned" /\ playlist_result = "Default")
    => /\ played = DeclaredOrder(1)
       /\ handle.current_playlist_index = 1

(* C4 as amended: the tracks are played 0, 1, 2, each once, before the playlist *)
(* pointer moves or the end of all playlists is flagged; when play_through     *)
(* returns, the pointer is advanced by one if another playlist follows, and    *)
(* otherwise it stays and has_reached_entire_end is set.                       *)
C4_InOrderThenAdvanceOrEnd ==
    C4_ThreeTracks
    => /\ IsPrefix(played, DeclaredOrder(1))
       /\ (handle.current_playlist_index # 0 \/ handle.has_reached_entire_end)
             => played = DeclaredOrder(1)
       /\ (pc = "playlist_returned" /\ playlist_result = "Default")
             => /\ played = DeclaredOrder(1)
                /\ IF Len(playlists) > 1
                   THEN /\ handle.current_playlist_index = 1
                        /\ ~handle.has_reached_entire_end
                   ELSE /\ handle.current_playlist_index = 0
                        /\ handle.has_reached_entire_end

(* The three tracks have been played and the pointer is on the next playlist. *)
C4_Witness ==
    /\ C4_ThreeTracks
    /\ pc = "playlist_returned"
    /\ playlist_result = "Default"
    /\ played = <<<<0, 0>>, <<0, 1>>, <<0, 2>>>>
    /\ handle.current_playlist_index = 1

(* A quiet run over a first playlist of one track declared with repeats 2,    *)
(* the playlist itself without, inside its Playlist::play_through.            *)
C5_SingleTrackTwice ==
    /\ Quiet
    /\ pc \in PlaylistFrames
    /\ self_playlist = 0
    /\ Len(constructed[1].tracks) = 1
    /\ constructed[1].tracks[1].repeats = 2
    /\ constructed[1].repeats = 0

(* C5: a single track with repeats 2 is played exactly 3 times, the track      *)
(* pointer at 0 all the while, before the playlist pointer advances.           *)
C5_PlayedThreeTimes ==
    C5_SingleTrackTwice
    => /\ handle.current_track_index = 0
       /\ Len(played) <= 3
       /\ \A i \in 1..Len(played) : played[i] = <<0, 0>>
       /\ Len(played) + playlists[1].tracks[1].repeats \in {2, 3}
       /\ ( \/ handle.current_playlist_index # 0
            \/ handle.has_reached_entire_end
            \/ pc = "playlist_after_loop"
            \/ (pc = "playlist_returned" /\ playlist_result = "Default") )
             => Len(played) = 3

(* The third play is over and the pointer is on the next playlist. *)
C5_Witness ==
    /\ C5_SingleTrackTwice
    /\ pc = "playlist_returned"
    /\ playlist_result = "Default"
    /\ played = <<<<0, 0>>, <<0, 0>>, <<0, 0>>>>
    /\ handle.current_playlist_index = 1

(* The pointers and the repeat counters are left as they are. *)
NavigationUnchanged ==
    /\ handle'.current_playlist_index = handle.current_playlist_index
    /\ handle'.current_track_index = handle.current_track_index
    /\ playlists' = playlists

C7_Playlist ==
    /\ pc \in PlaylistFrames
    /\ self_playlist + 1 < Len(playlists)
    /\ playlists[self_playlist + 1].repeats = 0

(* Its number of tracks, N. *)
C7_N == Len(playlists[self_playlist + 1].tracks)

(* C7: in a playlist of N tracks (repeats 0, not the last), TrackNext at track *)
(* pointer i < N-1 makes the pointer i+1; TrackNext at N-1 ends the track loop *)
(* with the pointer back at 0 and the playlist pointer is then advanced by     *)
(* one; the track pointer is never N or more.                                  *)
C7_TrackNextWalksThePlaylist ==
    [][ /\ C7_Playlist' => handle'.current_track_index < C7_N'
        /\ (C7_Playlist' /\ pc' = "track_returned" /\ last_signal' = "TrackNext"
                /\ received_at'.track < C7_N' - 1)
            => handle'.current_track_index = received_at'.track + 1
        /\ (C7_Playlist /\ pc = "track_returned" /\ last_signal = "TrackNext"
                /\ received_at.track = C7_N - 1)
            => /\ pc' = "playlist_after_loop"
               /\ handle'.current_track_index = 0
        /\ (C7_Playlist /\ pc = "playlist_after_loop")
            => /\ handle'.current_playlist_index = handle.current_playlist_index + 1
               /\ handle'.current_track_index = 0 ]_vars

(* Track::play_through has just returned on a back-skip. *)
BackSkipTaken == pc = "track_returned" /\ last_signal \in {"TrackBack", "PlaylistBack"}

(* The pointer the back-skip is about, when it was taken and now. *)
PointerBefore ==
    IF last_signal = "TrackBack" THEN received_at.track ELSE received_at.playlist
PointerAfter ==
    IF last_signal = "TrackBack" THEN handle.current_track_index
    ELSE handle.current_playlist_index

(* C8: a back-skip taken at 1 s or more of elapsed time leaves its pointer     *)
(* where it is; taken earlier with the pointer above 0 it lowers it by one.    *)
C8_BackSkipThreshold ==
    BackSkipTaken
    => /\ received_at.elapsed >= Second => PointerAfter = PointerBefore
       /\ (received_at.elapsed < Second /\ PointerBefore > 0)
             => PointerAfter = PointerBefore - 1

(* C9: a back-skip at pointer 0 is accepted and leaves the pointer 0; no       *)
(* back-skip raises its pointer, and both pointers are always >= 0.            *)
C9_BackSkipNeverUnderflows ==
    /\ handle.current_track_index >= 0
    /\ handle.current_playlist_index >= 0
    /\ BackSkipTaken
         => /\ track_result = "Skip"
            /\ PointerAfter <= PointerBefore
            /\ PointerBefore = 0 => PointerAfter = 0

(* TrackBack was taken with the track pointer at 0, which is still 0. *)
C9_Witness ==
    /\ BackSkipTaken
    /\ last_signal = "TrackBack"
    /\ received_at.track = 0
    /\ handle.current_track_index = 0
    /\ track_result = "Skip"

(* The entries of a sequence. *)
Range(seq) == {seq[i] : i \in 1..Len(seq)}

(* map holds each of 0 .. length - 1 once. *)
IsPermutation(map, length) ==
    /\ Len(map) = length
    /\ Range(map) = 0..(length - 1)

(* C10: every track_map is a permutation of 0 .. tracks.len() - 1, after       *)
(* construction and after every shuffle: same length, same entries, none twice. *)
C10_TrackMapIsPermutation ==
    \A p \in 1..Len(playlists) :
        /\ IsPermutation(playlists[p].track_map, Len(playlists[p].tracks))
        /\ playlists[p].length = Len(playlists[p].tracks)
        /\ Range(playlists[p].track_map) = Range(constructed[p].track_map)

(* A playlist on a later pass, reshuffled into another order than declared. *)
C10_Witness ==
    /\ shufflable
    /\ playlists[1].repeats # constructed[1].repeats
    /\ playlists[1].track_map # constructed[1].track_map
    /\ Len(playlists[1].track_map) = MaxTracks

(* The clamped range [0.0, 2.0] in steps. *)
ClampedRange == 0..(2 * StepsPerUnit)

(* C11: whatever volume signals have been handled, volume_get is within       *)
(* [0.0, 2.0], and so is the volume volume_update hands to the sink.          *)
C11_ClampedVolumeInRange ==
    /\ volume_get(handle) \in ClampedRange
    /\ handle.sink.volume \in ClampedRange

(* Muted from above 1.0: the raw volume is negative, the clamped one is 0. *)
C11_Witness ==
    /\ last_signal = "Mute"
    /\ volume_get_raw(handle) < -StepsPerUnit
    /\ volume_get(handle) = 0
    /\ handle.sink.volume = 0

(* The step handles a Mute signal. *)
MuteTaken == TrackSignalVolume /\ last_signal' = "Mute"

(* C12: a Mute handled right after a Mute leaves the raw volume exactly as it  *)
(* was before the first of the two.                                            *)
C12_MuteTwiceRestores ==
    [][(last_signal = "Mute" /\ MuteTaken)
          => volume_get_raw(handle') = received_at.volume]_vars

(* Volume 1.025 was muted and has been un-muted. *)
C12_Witness ==
    /\ last_signal = "Mute"
    /\ received_at.volume = -(StepsPerUnit + 1)
    /\ volume_get_raw(handle) = StepsPerUnit + 1

(* C13 (its range): the raw volume stays within [-1.0, 2.0] under volume       *)
(* signals.                                                                    *)
C13_RawVolumeInRange ==
    volume_get_raw(handle) \in (-StepsPerUnit)..(2 * StepsPerUnit)

(* C14: a repeat counter declared as -1 never becomes 0, however often         *)
(* repeats_update is called on it: repeats_can stays true.                     *)
C14_ForeverIsStable ==
    /\ constructed[1].repeats = -1 => repeats_can(playlists[1].repeats)
    /\ constructed[1].tracks[1].repeats = -1 => repeats_can(playlists[1].tracks[1].repeats)

(* A step of Track::play_through that calls one of the try_set operations: a   *)
(* skip signal, or the natural end of a track that is not replayed.            *)
TrySetCalled == TrackSignalSkip \/ (TrackEnd /\ pc' = "track_returned")

TrySetOnPlaylist == last_signal' \in {"PlaylistNext", "PlaylistBack"}

TrySetProposed ==
    LET old == IF TrySetOnPlaylist THEN handle.current_playlist_index
               ELSE handle.current_track_index
    IN  IF last_signal' \in {"PlaylistBack", "TrackBack"} THEN decrement(old)
        ELSE increment(old)

FlagsUnchanged ==
    /\ handle'.has_reached_entire_end = handle.has_reached_entire_end
    /\ handle'.has_reached_current_playlist_end = handle.has_reached_current_playlist_end

(* C15: a try_set whose proposed index is out of bounds sets the reached-end   *)
(* flag of its pointer, reports OutOfBounds and leaves both pointers as they   *)
(* were before the call; in bounds it commits the index and sets no flag.      *)
C15_PointerUpdateContract ==
    [][TrySetCalled =>
         IF track_result' = "ErrOutOfBounds"
         THEN /\ IF TrySetOnPlaylist THEN handle'.has_reached_entire_end
                 ELSE handle'.has_reached_current_playlist_end
              /\ handle'.current_playlist_index = handle.current_playlist_index
              /\ handle'.current_track_index = handle.current_track_index
         ELSE /\ IF TrySetOnPlaylist
                 THEN handle'.current_playlist_index = TrySetProposed
                 ELSE handle'.current_track_index = TrySetProposed
              /\ FlagsUnchanged]_vars

(* C16: whenever playlist_index_try_set, playlist_index_reset or               *)
(* playlists_swap changes current_playlist_index, current_track_index is 0     *)
(* right after the call.                                                       *)
C16_PlaylistChangeRewindsTrack ==
    [][handle'.current_playlist_index # handle.current_playlist_index
          => handle'.current_track_index = 0]_vars

(* Each of the three has moved the playlist pointer away from a track past     *)
(* the first.                                                                  *)
C16_Moved(operation) ==
    /\ last_signal = operation
    /\ received_at.track > 0
    /\ received_at.playlist # handle.current_playlist_index
    /\ handle.current_track_index = 0

C16_Witness == C16_Moved("playlist_index_reset")

C16_WitnessTrySet == C16_Moved("playlist_index_try_set")

C16_WitnessSwap == C16_Moved("playlists_swap")

(* C17: Playlist::play_through never returns SkipSkip, and the unimplemented!() *)
(* arm of all_playlists_play is never entered, whatever signals arrive.        *)
C17_SkipSkipNeverLeavesPlaylist ==
    /\ playlist_result # "SkipSkip"
    /\ pc # "panicked"

(* Playlist::play_through has returned with every signal of the budget taken. *)
C17_Witness ==
    /\ pc = "playlist_returned"
    /\ playlist_result \in {"Break", "Default"}
    /\ signals_received = MaxSignals

(* C18: when signal_receive reports Disconnected, Track::play_through returns  *)
(* the channel-disconnect error, then Playlist::play_through returns it, then   *)
(* all_playlists_play returns it, and no pointer and no repeat counter changes *)
(* on the way.                                                                 *)
C18_DisconnectReachesTheCaller ==
    [][ /\ TrackDisconnected
            => /\ pc' = "track_returned"
               /\ track_result' = "ErrDisconnect"
               /\ NavigationUnchanged
        /\ track_result = "ErrDisconnect"
            => /\ pc' = "playlist_returned"
               /\ playlist_result' = "ErrDisconnect"
               /\ NavigationUnchanged
        /\ playlist_result = "ErrDisconnect"
            => /\ pc' = "returned"
               /\ result' = "ErrDisconnect"
               /\ NavigationUnchanged
        /\ result = "ErrDisconnect" => result' = "ErrDisconnect" ]_vars

(* all_playlists_play has returned the error of a channel that disconnected    *)
(* during the second track.                                                    *)
C18_Witness ==
    /\ pc = "returned"
    /\ result = "ErrDisconnect"
    /\ handle.current_track_index = 1

(* C19: an out-of-bounds error that a pointer update raises inside a track is  *)
(* recovered by Playlist::play_through, which resets the track pointer and     *)
(* leaves its loop; neither it nor all_playlists_play returns that error.      *)
C19_OutOfBoundsIsRecovered ==
    /\ [](playlist_result # "ErrOutOfBounds" /\ result # "ErrOutOfBounds")
    /\ [][track_result = "ErrOutOfBounds"
             => /\ pc' = "playlist_after_loop"
                /\ handle'.current_track_index = 0]_vars

(* The loop has been left on the error of the track pointer running off the    *)
(* end of the playlist.                                                        *)
C19_Witness ==
    /\ pc = "playlist_after_loop"
    /\ track_result = "None"
    /\ handle.has_reached_current_playlist_end
    /\ handle.current_track_index = 0

(* The same on the error of the playlist pointer. *)
C19_WitnessPlaylist ==
    /\ pc = "playlist_after_loop"
    /\ track_result = "None"
    /\ handle.has_reached_entire_end
    /\ handle.current_track_index = 0

(* C20: after notify_exit the control thread ends after at most one more poll  *)
(* of the terminal, and the clean_up that follows returns from its join,       *)
(* whether the thread had ended on the exit key before or not.                 *)
C20_ShutdownProtocol ==
    /\ [](controls.polls <= 1)
    /\ (controls.owner # "running") ~> thread_has_ended(controls)
    /\ (controls.owner = "joining") ~> (controls.owner = "cleaned_up")

(* clean_up has returned after a thread that was told to end and polled once   *)
(* more before it saw the message.                                             *)
C20_Witness ==
    /\ controls.owner = "cleaned_up"
    /\ controls.ended_by = "notify"
    /\ controls.polls = 1

(* clean_up has returned after a thread that had ended on the exit key. *)
C20_WitnessExitKey ==
    /\ controls.owner = "cleaned_up"
    /\ controls.ended_by = "exit_key"
    /\ controls.exit_channel = 0
    /\ controls.polls = 0

C22_ExitIsTheLastSignal ==
    \A i \in 1..Len(controls.sent) :
       controls.sent[i] = "Exit"
          => /\ i = Len(controls.sent)
             /\ thread_has_ended(controls)
             /\ controls.ended_by = "exit_key"

(* Exit was sent after another signal. *)
C22_Witness ==
    /\ controls.sent = <<"Play", "Exit">>
    /\ thread_has_ended(controls)

ExitWaits == \E i \in 1..Len(controls.signal_channel) : controls.signal_channel[i] = "Exit"

(* A repeat counter has been counted down to where the model leaves it. *)
NegativeBoundReached ==
    \E p \in 1..Len(playlists) :
       \/ playlists[p].repeats = -MaxNegative
       \/ \E t \in 1..Len(playlists[p].tracks) : playlists[p].tracks[t].repeats = -MaxNegative

(* C23: once Exit waits in the signal channel, all_playlists_play returns,     *)
(* and it returns Break when it was Exit that ended it; whatever the repeat    *)
(* counters, the paused state and the signals waiting before Exit.             *)
C23_ExitEndsPlayback ==
    /\ ExitWaits ~> (pc = "returned" \/ NegativeBoundReached)
    /\ [](pc = "returned" /\ controls.ended_by = "exit_key" /\ controls.signal_channel = <<>>
            => result = "Break")

(* The same, but for the runs in which nth_unchecked has read past the end of  *)
(* track_map.                                                                  *)
ExitEndsPlaybackOrUncheckedRead ==
    ExitWaits ~> (pc = "returned" \/ NegativeBoundReached \/ unchecked_read # "none")

(* C24: Playhandle::tracks_count gives the number of tracks of the playlist    *)
(* under the playlist pointer, wherever the two pointers are.                  *)
C24_TracksCountOfCurrentPlaylist ==
    ~playlist_index_check(handle)
       => Playhandle_tracks_count(handle) =
             {tracks_count(playlists[handle.current_playlist_index + 1])}

(* C25: a Playlist built from a descriptor after vary_set(state), or after     *)
(* vary_unset (state false), has shuffle_can() equal to state.                 *)
C25_VarySetDecidesShuffle ==
    (serde.built # None /\ serde.state # None /\ serde.built[1].ok)
       => shuffle_can(serde.built[1].playlist) = serde.state[1]

(* C26: flatten of a list that is not empty is Ok, with the songs of all its   *)
(* descriptors one after another in their order and with the least of their    *)
(* repeat counts; it is Err(Empty) for the empty list only.                     *)
C26_FlattenMergesEveryList ==
    serde.flattened # None
       => LET lists == serde.lists
              flat == serde.flattened[1]
          IN  IF lists = <<>> THEN ~flat.ok
              ELSE /\ flat.ok
                   /\ flat.value.song = flat_map_song(lists)
                   /\ \A i \in 1..Len(lists) :
                         unwrap_or_default(flat.value.time)
                            <= unwrap_or_default(lists[i].time)
                   /\ \E i \in 1..Len(lists) :
                         unwrap_or_default(flat.value.time)
                            = unwrap_or_default(lists[i].time)

(* `passes` times the streams of the first playlist in declared order. *)
RECURSIVE Passes(_)
Passes(passes) == IF passes = 0 THEN <<>> ELSE DeclaredOrder(1) \o Passes(passes - 1)

(* The first playlist was declared with N >= 0 repeats and its tracks with     *)
(* none, and no signal has arrived.                                            *)
C27_Playlist ==
    /\ Quiet
    /\ self_playlist = 0
    /\ constructed[1].repeats >= 0
    /\ \A t \in 1..Len(constructed[1].tracks) : constructed[1].tracks[t].repeats = 0

C29_ResetsRewind ==
    [][TrackSignalReset
         => /\ pc' = "track_returned"
            /\ track_result' = "Default"
            /\ handle'.current_track_index = 0
            /\ handle'.current_playlist_index =
                  IF last_signal' = "PlaylistReset" THEN 0
                  ELSE handle.current_playlist_index
            /\ playlists' = playlists
            /\ FlagsUnchanged]_vars

(* PlaylistReset was taken in the second playlist. *)
C29_Witness ==
    /\ pc = "track_returned"
    /\ last_signal = "PlaylistReset"
    /\ received_at.playlist = 1
    /\ handle.current_playlist_index = 0
    /\ handle.current_track_index = 0

(* TrackReset was taken in the second track. *)
C29_WitnessTrack ==
    /\ pc = "track_returned"
    /\ last_signal = "TrackReset"
    /\ received_at.track = 1
    /\ handle.current_track_index = 0

(* C30: the paused flag of the Playhandle is the paused state of the sink,     *)
(* whatever was called: playback_is_paused() agrees with the sink.             *)
C30_PausedMirrorsSink == playback_is_paused(handle) = handle.sink.paused

---------------------------------------------------------------------------
(* C36: whenever Playlist::play_through has a track playing, that track is one *)
(* of playlists[current_playlist_index]: the Playlist the loop runs on is the  *)
(* one the playlist pointer designates, also after PlaylistNext, PlaylistBack  *)
(* or PlaylistReset moved the pointer.                                         *)
C36_TrackBelongsToCurrentPlaylist ==
    pc \in {"track_play_through", "track_loop"}
    => self_playlist = handle.current_playlist_index

---------------------------------------------------------------------------
(* Playlist::play_through has returned Default to all_playlists_play. *)
C37_DefaultReturned == pc = "playlist_returned" /\ playlist_result = "Default"

---------------------------------------------------------------------------
(* The repeat counters of every Playlist and of every Track, as they stand. *)
C38_Counters ==
    [p \in 1..Len(playlists) |->
        [playlist |-> playlists[p].repeats,
         tracks |-> [t \in 1..Len(playlists[p].tracks) |-> playlists[p].tracks[t].repeats]]]

(* A step of the handling of a skip signal: its receipt in Track::play_through, *)
(* the match in Playlist::play_through, and after an index out of bounds the   *)
(* code behind the break.                                                      *)
C38_HandlingSkip ==
    \/ TrackSignalSkip
    \/ is_skip(last_signal) /\ (PlaylistMatch \/ PlaylistAfterLoop)

(* The original statement: no step of the handling of a skip signal changes a *)
(* Track or Playlist repeat counter, wherever the pointers stand.             *)
C38_SkipKeepsRepeatCounters ==
    [][C38_HandlingSkip => C38_Counters' = C38_Counters]_vars

(* C38: handling TrackNext, TrackBack, PlaylistNext or PlaylistBack changes no *)
(* Track repeat counter, and no Playlist repeat counter while the new index is *)
(* within bounds.  A next-skip past the last track or the last playlist ends   *)
(* the pass of the Playlist that is playing: its counter, when not 0, is       *)
(* decremented once, and no other counter changes.                             *)
C38_SkipPastTheEndEndsThePass ==
    [][C38_HandlingSkip =>
          IF PlaylistAfterLoop
          THEN C38_Counters' =
                   [C38_Counters EXCEPT ![self_playlist + 1].playlist =
                       IF @ # 0 THEN @ - 1 ELSE @]
          ELSE C38_Counters' = C38_Counters]_vars

(* TrackNext at the last track of a playlist with a repeat left, or            *)
(* PlaylistNext at the last playlist: the break has been taken and the         *)
(* Playlist is about to consume a repeat.                                      *)
C38_Witness ==
    /\ pc = "playlist_after_loop"
    /\ last_signal \in {"TrackNext", "PlaylistNext"}
    /\ playlists[self_playlist + 1].repeats > 0

---------------------------------------------------------------------------
(* C39 (its first half): the repeat counter of a Track never increases,       *)
(* however often repeats_update is called on it.                              *)
C39_TrackCounterNeverIncreases ==
    [][\A p \in 1..Len(playlists) : \A t \in 1..Len(playlists[p].tracks) :
          playlists'[p].tracks[t].repeats <= playlists[p].tracks[t].repeats]_vars

RECURSIVE C39_Times(_, _)
C39_Times(entry, times) ==
    IF times = 0 THEN <<>> ELSE <<entry>> \o C39_Times(entry, times - 1)

(* The first pass over the first playlist from its track t on: every track as *)
(* often as its declared counter says, and once more.                         *)
RECURSIVE C39_FirstPass(_)
C39_FirstPass(t) ==
    IF t > Len(constructed[1].tracks) THEN <<>>
    ELSE C39_Times(<<0, t - 1>>, constructed[1].tracks[t].repeats + 1) \o C39_FirstPass(t + 1)

(* C39 (its second half), away from the overflow of the counter: in a quiet    *)
(* unshuffled run of a first playlist declared with repeats R >= 1 and track   *)
(* counters >= 0, by the time play_through returns every track was played as   *)
(* often as its counter says and once more in the first pass, and exactly once *)
(* in each of the R later passes; and no Track counter above -MaxNegative      *)
(* increases.                                                                  *)
C39_ConsumedInTheFirstPass ==
    /\ [](( /\ pc = "playlist_returned"
            /\ Quiet
            /\ ~should_shuffle
            /\ self_playlist = 0
            /\ playlist_result = "Default"
            /\ constructed[1].repeats >= 1
            /\ \A t \in 1..Len(constructed[1].tracks) : constructed[1].tracks[t].repeats >= 0 )
          => played = C39_FirstPass(1) \o Passes(constructed[1].repeats))
    /\ C39_TrackCounterNeverIncreases

---------------------------------------------------------------------------
(* Every playlist and every track was declared with a repeat counter >= 0. *)
C40_NonNegative ==
    \A p \in 1..Len(constructed) :
       /\ constructed[p].repeats >= 0
       /\ \A t \in 1..Len(constructed[p].tracks) : constructed[p].tracks[t].repeats >= 0

C40_ReturnedDefault == pc = "returned" /\ result = "Default"

(* A file did not open, or the channel was found disconnected. *)
C40_Failed ==
    \E failure \in {"ErrIo", "ErrDisconnect"} :
       track_result = failure \/ playlist_result = failure \/ result = failure

---------------------------------------------------------------------------
(* The repeat counters of main.rs: the time of every list and of every song of *)
(* the list that is playing.                                                   *)
C31_Counters == <<[l \in 1..Len(main.lists) |-> main.lists[l].time], main.song>>

(* Where a back-skip received at the track's elapsed time leaves a pointer,    *)
(* with the pointer moved while less than `threshold` has passed.              *)
C31_After(pointer, moves) == IF moves /\ pointer > 0 THEN pointer - 1 ELSE pointer

(* C31: in the main.rs loop SkipBack received at an elapsed time of the track  *)
(* of 1 s or more leaves song_index as it is, and received at less than 1 s    *)
(* with song_index > 0 decreases it by exactly 1; SkipBackPlaylist does the    *)
(* same to list_index; neither changes a repeat counter.                       *)
C31_BackSkipAtOneSecond ==
    [][ /\ MainSkipBack =>
              /\ main'.song_index = C31_After(main.song_index, main.elapsed < SECOND)
              /\ main'.list_index = main.list_index
              /\ C31_Counters' = C31_Counters
        /\ MainSkipBackPlaylist =>
              /\ main'.list_index = C31_After(main.list_index, main.elapsed < SECOND)
              /\ C31_Counters' = C31_Counters ]_vars

(* What the loop does: the pointer moves back up to and including 1 s. *)
C31_BackSkipUpToOneSecond ==
    [][ /\ MainSkipBack =>
              /\ main'.song_index = C31_After(main.song_index, main.elapsed <= SECOND)
              /\ main'.list_index = main.list_index
              /\ C31_Counters' = C31_Counters
        /\ MainSkipBackPlaylist =>
              /\ main'.list_index = C31_After(main.list_index, main.elapsed <= SECOND)
              /\ C31_Counters' = C31_Counters ]_vars

---------------------------------------------------------------------------
(* C32: the threshold of a playlist back-skip is measured from the moment the  *)
(* playlist began playing: in the main.rs loop SkipBackPlaylist received       *)
(* during a later song of a list that has been playing for more than SECOND    *)
(* leaves list_index as it is.                                                 *)
C32_PlaylistBackSinceThePlaylistBegan ==
    [][(MainSkipBackPlaylist /\ main.old_song_index > 0 /\ main.since > SECOND)
          => main'.list_index = main.list_index]_vars

---------------------------------------------------------------------------
(* C33: once the control thread has sent ManualExit and finished, the 'queue   *)
(* loop of main is left, in every interleaving of the two threads and whatever *)
(* the repeat counters are, a list declared with a negative time included.     *)
C33_ManualExitEndsTheQueue == (main.control = "finished") ~> (main.pc = "done")

(* What holds: with no list declared to repeat forever the loop is left, after *)
(* the repeats that remain; ManualExit itself may stay unread in the channel.  *)
C33_EndsAfterTheRepeatsThatRemain ==
    (main.control = "finished" /\ \A l \in 1..Len(main.lists) : main.lists[l].time >= 0)
       ~> (main.pc = "done")

(* C32, in_out.rs: a PlaylistBack received while a later track of the playlist *)
(* plays, more than two seconds after the playlist began, is not answered with *)
(* BackBack, the instruction that moves the playlist back.                     *)
C32_InOutBackSinceThePlaylistBegan ==
    [][(UnwrappedTrackPlaylistBack /\ Len(in_out.played) > 1 /\ in_out.since > TwoSeconds)
          => in_out'.instruction # "BackBack"]_vars

(* C34: no signal arrives, no file fails to play, the channel is not found     *)
(* disconnected, and play has returned.                                        *)
C34_Undisturbed ==
    /\ in_out.pc = "returned"
    /\ in_out.received = 0
    /\ ~in_out.failed
    /\ in_out.instruction # "ExitQuit"
    /\ \A i \in DOMAIN in_out.declared.tracks : in_out.declared.tracks[i] = 0

RECURSIVE C34_Passes(_, _)
C34_Passes(length, passes) ==
    IF passes = 0 THEN <<>> ELSE [i \in 1..length |-> i - 1] \o C34_Passes(length, passes - 1)

(* C34: UnwrappedPlaylist::play with repeats = N >= 0 and no signals plays     *)
(* N + 1 passes of its tracks, each pass in index order from track_index (0),  *)
(* and returns None.                                                           *)
C34_PlaysRepeatsPlusOnePasses ==
    (C34_Undisturbed /\ in_out.declared.repeats >= 0)
        => /\ in_out.instruction = "None"
           /\ in_out.played = C34_Passes(Len(in_out.tracks), in_out.declared.repeats + 1)

(* What the code does: nothing is played with repeats = 0, and otherwise the   *)
(* track at the index play was called with is played once for every track.     *)
C34_PlaysTheFirstTrackOnly ==
    (C34_Undisturbed /\ in_out.declared.repeats >= 0)
        => /\ in_out.instruction = "None"
           /\ in_out.played = IF in_out.declared.repeats = 0 THEN <<>>
                              ELSE [i \in 1..Len(in_out.tracks) |-> 0]

(* C35: two consecutive Mute signals handled while playback is not paused      *)
(* leave a stored volume v in [0.0, 2.0] equal to v, and get_volume() with it. *)
C35_MuteTwiceRestores ==
    (in_out.mutes.count = 2 /\ in_out.mutes.from \in 0..(2 * StepsPerUnit))
        => /\ in_out.VOLUME = in_out.mutes.from
           /\ get_volume(in_out.VOLUME) = get_volume(in_out.mutes.from)

(* What the code does: a stored volume up to 1.0 is restored, one above 1.0    *)
(* comes back as 1.0, its negation having been clamped to -1.0.                *)
C35_MuteTwiceRestoresUpToOne ==
    (in_out.mutes.count = 2 /\ in_out.mutes.from \in 0..(2 * StepsPerUnit))
        => in_out.VOLUME = clamp(in_out.mutes.from, 0, StepsPerUnit)

====
